---- MODULE Spec2Model ----
(***************************************************************************)
(* Parameter-state machine and buffer caching of deepali's spatial         *)
(* transforms: SpatialTransform / NonRigidTransform (spatial/base.py) with *)
(* the ParametricTransform / InvertibleParametricTransform mix-ins         *)
(* (spatial/parametric.py).                                                *)
(*                                                                         *)
(* A transform is a torch.nn.Module.  Its attribute 'params' lives in one  *)
(* of four places, looked up in this order: the instance __dict__, the     *)
(* _parameters container, the _buffers container, the _modules container.  *)
(* A shallow copy (__copy__) gets its own __dict__, _buffers and _modules  *)
(* but keeps a reference to the very same _parameters container.           *)
(*                                                                         *)
(* A call is an operator from the heap to its outcome: the heap it leaves, *)
(* and what it returns or raises.  The actions apply the calls.            *)
(***************************************************************************)
EXTENDS Naturals, Sequences, FiniteSets

VARIABLES
    objs,     \* the transform instances, by slot
    pstore,   \* the _parameters containers, by the slot of the constructed instance
    cls,      \* the concrete class of all instances (decides what update() registers)
    conf,     \* the ConfigurableTransform instances (their sub-transforms are in objs)
    fitting,  \* the call of fit() in progress on the transform in slot 1
    flows     \* a flow field or batch of flow fields and the last result of a call on it

vars == <<objs, pstore, cls, conf, fitting, flows>>

\* ---------------------------------------------------------------- bounds
MaxObjs == 3

Slots == 1..MaxObjs

\* ---------------------------------------------------------------- values
\* Every attribute value is a record of one shape, told apart by field k.  Of a
\* tensor, store names the storage it lives in (0: a tensor that no transform
\* has held yet; tensors of the same storage are the same torch.Tensor, or a
\* Parameter wrapped around it) and rev counts the optimizer steps applied to it
\* in place.
Val(k, val, param, shape, id, a, kw) ==
    [k |-> k, val |-> val, param |-> param, shape |-> shape, id |-> id, a |-> a, kw |-> kw,
     store |-> 0, rev |-> 0]

Absent == Val("absent", "-", FALSE, "-", 0, "-", "-")

NoneV == Val("none", "-", FALSE, "-", 0, "-", "-")

Fn == Val("fn", "-", FALSE, "-", 0, "-", "-")

Net == Val("net", "-", FALSE, "-", 0, "-", "-")

NonTensor == Val("nontensor", "-", FALSE, "-", 0, "-", "-")

ObjV(j) == Val("obj", "-", FALSE, "-", j, "-", "-")

Tensor(val, param, shape) == Val("tensor", val, param, shape, 0, "-", "-")

PredT(a, kw, shape) == Val("tensor", "pred", FALSE, shape, 0, a, kw)

CondV(a, kw) == Val("cond", "-", FALSE, "-", 0, a, kw)

Zeros(param) == Tensor("z", param, "ok")

Parameter(t) == [t EXCEPT !.param = TRUE]

IsTensor(v) == v.k = "tensor"

IsParameter(v) == v.k = "tensor" /\ v.param

IsModule(v) == v.k \in {"net", "obj"}

Callable(v) == v.k \in {"fn", "net", "obj"}

\* The values of tensor t, whatever storage holds them.
Values(t) == IF IsTensor(t) THEN [t EXCEPT !.store = 0] ELSE t

\* Tensor t as held in storage n.
Stored(t, n) == IF IsTensor(t) THEN [t EXCEPT !.store = n] ELSE t

\* Same tensor data, whether or not wrapped as torch.nn.Parameter.
SameData(s, t) ==
    /\ IsTensor(s) /\ IsTensor(t)
    /\ [s EXCEPT !.param = FALSE, !.store = 0] = [t EXCEPT !.param = FALSE, !.store = 0]

\* ---------------------------------------------------------------- grids
Grid(name, ndim) == [name |-> name, ndim |-> ndim]

NoGrid == Grid("-", 0)

G1 == Grid("g1", 2)

G2 == Grid("g2", 2)

G3 == Grid("g3", 3)

GridArgs == {G1, G2, G3}

\* ---------------------------------------------------------------- cached vector fields
Field(src, g, inv, shape) == [src |-> src, g |-> g, inv |-> inv, shape |-> shape]

NoField == Field(Absent, NoGrid, FALSE, "-")

\* ---------------------------------------------------------------- inputs
CondArgs == {"none", "x1"}

CondKwargs == {"none", "k1"}

DataArgs ==
    { Tensor("t2", FALSE, "ok"), Tensor("t2", TRUE, "ok"),
      Tensor("t2", FALSE, "badrank"), Tensor("t2", FALSE, "badshape"), NonTensor }

PredOutcomes == {"ok", "nontensor", "badrank", "badshape"}

Classes == {"base", "svf", "badrank", "badchan", "unregistered"}

ParamsSpecs == {"None", "True", "Tensor", "fn", "net"}

\* ---------------------------------------------------------------- instances
NoObj ==
    [alive |-> FALSE, _grid |-> NoGrid, _args |-> "none", _kwargs |-> "none",
     dparams |-> Absent, bparams |-> Absent, mparams |-> Absent,
     p |-> Absent, u |-> NoField, v |-> NoField, pc |-> 0, bc |-> 0, mc |-> 0,
     invert |-> FALSE]

\* NonRigidTransform.clear_buffers
clear_buffers_of(o) == [o EXCEPT !.u = NoField, !.v = NoField]

\* SpatialTransform.__init__ followed by ParametricTransform.__init__ and
\* InvertibleParametricTransform.__init__ on slot i.
NewObj(i, spec) ==
    [alive |-> TRUE, _grid |-> G1, _args |-> "none", _kwargs |-> "none",
     dparams |-> IF spec = "None" THEN NoneV ELSE IF spec = "fn" THEN Fn ELSE Absent,
     bparams |-> IF spec = "Tensor" THEN Stored(Tensor("t1", FALSE, "ok"), i) ELSE Absent,
     mparams |-> IF spec = "net" THEN Net ELSE Absent,
     p |-> IF spec \in {"fn", "net"} THEN Stored(Zeros(FALSE), i) ELSE Absent,
     u |-> NoField, v |-> NoField, pc |-> i, bc |-> i, mc |-> i, invert |-> FALSE]

NewStore(spec) == IF spec = "True" THEN Zeros(TRUE) ELSE Absent

\* The entries of the _parameters containers after two constructor calls.
NewStores(s1, s2) ==
    [i \in Slots |-> IF i = 1 THEN Stored(NewStore(s1), 1)
                     ELSE IF i = 2 THEN Stored(NewStore(s2), 2) ELSE Absent]

Alive == {i \in Slots : objs[i].alive}

HasFree == \E i \in Slots : ~objs[i].alive

FreeSlot == CHOOSE i \in Slots : ~objs[i].alive /\ \A j \in Slots : j < i => objs[j].alive

\* A copy that keeps referring to the _buffers and _modules containers of the original.
shallow_copy_shared(o, n) == o

\* SpatialTransform.__copy__ into slot n: a new __dict__ with the same entries,
\* new _buffers and _modules containers with the same entries, and the same
\* _parameters container.
shallow_copy(o, n) == [o EXCEPT !.bc = n, !.mc = n]

\* The heap with the instance in slot n replaced by o: the entries of its
\* _buffers and _modules containers change for every instance that refers to
\* the same container.
Put(os, n, o) ==
    [k \in DOMAIN os |->
        IF k = n THEN o
        ELSE IF ~os[k].alive THEN os[k]
        ELSE LET b == IF os[k].bc = o.bc
                      THEN [os[k] EXCEPT !.bparams = o.bparams, !.p = o.p, !.u = o.u, !.v = o.v]
                      ELSE os[k]
             IN  IF os[k].mc = o.mc THEN [b EXCEPT !.mparams = o.mparams] ELSE b]

\* ---------------------------------------------------------------- tensor storage
\* The attributes of a transform that can hold a tensor: its entry of
\* _parameters, the plain attribute 'params', and the buffers 'params' and 'p'.
CellNames == <<"_parameters", "__dict__", "params", "p">>

\* What slot c[1] holds in the attribute CellNames[c[2]].
CellAt(os, ps, c) ==
    IF CellNames[c[2]] = "_parameters" THEN ps[c[1]]
    ELSE IF CellNames[c[2]] = "__dict__" THEN os[c[1]].dparams
    ELSE IF CellNames[c[2]] = "params" THEN os[c[1]].bparams
    ELSE os[c[1]].p

\* The heap with F applied to every reference to a tensor of the storages ns.
InPlace(os, ps, ns, F(_)) ==
    LET Touch(t) == IF IsTensor(t) /\ t.store \in ns THEN F(t) ELSE t
    IN  [objs |-> [i \in DOMAIN os |->
                      [os[i] EXCEPT !.dparams = Touch(@), !.bparams = Touch(@), !.p = Touch(@)]],
         ps |-> [i \in DOMAIN ps |-> Touch(ps[i])]]

\* The storages the slots refer to, in the order in which the slots refer to
\* them: seen lists the storages of the cells before cell <<i, f>>.
RECURSIVE Storages(_, _, _, _, _)
Storages(os, ps, i, f, seen) ==
    IF i \notin DOMAIN os THEN seen
    ELSE IF f \notin DOMAIN CellNames THEN Storages(os, ps, i + 1, 1, seen)
    ELSE LET t == CellAt(os, ps, <<i, f>>)
         IN  IF IsTensor(t) /\ \A k \in DOMAIN seen : seen[k] # t.store
             THEN Storages(os, ps, i, f + 1, Append(seen, t.store))
             ELSE Storages(os, ps, i, f + 1, seen)

\* The heap with its storages numbered in the order in which the slots refer to
\* them; the references to a tensor that the call brought in (storage 0) are
\* references to one new storage.
Numbered(os, ps) ==
    CHOOSE h \in {LET number(t) ==
                         IF ~IsTensor(t) THEN t
                         ELSE [t EXCEPT !.store = CHOOSE k \in DOMAIN seen : seen[k] = t.store]
                  IN  [objs |-> [i \in DOMAIN os |->
                                    [os[i] EXCEPT !.dparams = number(@), !.bparams = number(@),
                                                  !.p = number(@)]],
                       ps |-> [i \in DOMAIN ps |-> number(ps[i])]]
                  : seen \in {Storages(os, ps, 1, 1, <<>>)}} : TRUE

\* torch.nn.init.constant_(tensor, 0.0)
constant_(t) == [t EXCEPT !.val = "z", !.a = "-", !.kw = "-", !.rev = 0]

\* ---------------------------------------------------------------- torch.nn.Module attribute protocol
\* getattr(self, "params")
GetAttrParams(o, ps) ==
    IF o.dparams # Absent THEN o.dparams
    ELSE IF ps[o.pc] # Absent THEN ps[o.pc]
    ELSE IF o.bparams # Absent THEN o.bparams
    ELSE o.mparams

Out(o, ps, err) == [o |-> o, ps |-> ps, err |-> err]

\* self.params = v
SetAttrParams(o, ps, v) ==
    IF IsParameter(v)
    THEN Out([o EXCEPT !.dparams = Absent, !.bparams = Absent, !.mparams = Absent],
             [ps EXCEPT ![o.pc] = v], "ok")
    ELSE IF ps[o.pc] # Absent
    THEN IF v # NoneV THEN Out(o, ps, "TypeError")
         ELSE Out(o, [ps EXCEPT ![o.pc] = NoneV], "ok")
    ELSE IF IsModule(v)
    THEN Out([o EXCEPT !.dparams = Absent, !.bparams = Absent, !.mparams = v], ps, "ok")
    ELSE IF o.mparams # Absent
    THEN IF v # NoneV THEN Out(o, ps, "TypeError")
         ELSE Out([o EXCEPT !.mparams = NoneV], ps, "ok")
    ELSE IF o.bparams # Absent
    THEN IF v # NoneV /\ ~IsTensor(v) THEN Out(o, ps, "TypeError")
         ELSE Out([o EXCEPT !.bparams = v], ps, "ok")
    ELSE Out([o EXCEPT !.dparams = v], ps, "ok")

\* The parameter variant of an instance, decided as data(), data_() and _data()
\* decide it: by what getattr(self, "params") returns.
Variant(o, ps) ==
    LET params == GetAttrParams(o, ps)
    IN  IF params = NoneV THEN "Unset"
        ELSE IF IsParameter(params) THEN "Optimizable"
        ELSE IF IsTensor(params) THEN "Fixed"
        ELSE IF params.k = "obj" THEN "Linked"
        ELSE IF Callable(params) THEN "Predicted"
        ELSE "Other"

\* ---------------------------------------------------------------- outcome of a call
\* objs, ps: the heap after the call; status: "ok" or the exception raised;
\* out: the value returned; fld: the vector field returned; new: the slot of the
\* transform returned (0: none); upd: the number of update() invocations;
\* calls: the conditioning arguments of every predictor invocation.
Ret(os, ps, status, out, fld, new, upd, calls) ==
    [objs |-> os, ps |-> ps, status |-> status, out |-> out, fld |-> fld,
     new |-> new, upd |-> upd, calls |-> calls]

Raise(os, ps, status) == Ret(os, ps, status, Absent, NoField, 0, 0, <<>>)

Return(os, ps, out) == Ret(os, ps, "ok", out, NoField, 0, 0, <<>>)

ReturnObj(os, ps, new) == Ret(os, ps, "ok", Absent, NoField, new, 0, <<>>)

\* F applied to the value of e, with e evaluated once.
Bind(e, F(_)) == CHOOSE y \in {F(x) : x \in {e}} : TRUE

\* ---------------------------------------------------------------- ParametricTransform
\* data() without argument
do_data_get(os, ps, i) ==
    LET o == os[i]
        params == GetAttrParams(o, ps)
    IN  IF params = NoneV THEN Raise(os, ps, "AssertionError")
        ELSE IF Callable(params)
        THEN IF o.p = Absent THEN Raise(os, ps, "AttributeError")
             ELSE Return(os, ps, o.p)
        ELSE Return(os, ps, params)

\* The checks of data(arg), data_(arg) and _data() on a tensor argument or prediction.
CheckTensor(t) ==
    IF ~IsTensor(t) THEN "TypeError"
    ELSE IF t.shape = "badrank" THEN "ValueError"
    ELSE IF t.shape # "ok" THEN "ValueError"
    ELSE "ok"

\* What the predictor returns when invoked with (a, kw); oc is the predictor's choice.
Predict(a, kw, oc) ==
    IF oc = "nontensor" THEN NonTensor ELSE PredT(a, kw, oc)

\* _data() without the branch for a linked transform: the link target is invoked
\* as a predictor.
_data_unlinked(os, ps, i, oc) ==
    LET o == os[i]
        params == GetAttrParams(o, ps)
    IN  IF params = NoneV THEN Raise(os, ps, "AssertionError")
        ELSE IF Callable(params)
        THEN LET pred == Predict(o._args, o._kwargs, oc)
                 call == <<CondV(o._args, o._kwargs)>>
             IN  IF CheckTensor(pred) # "ok"
                 THEN Ret(os, ps, CheckTensor(pred), Absent, NoField, 0, 0, call)
                 ELSE Ret(os, ps, "ok", pred, NoField, 0, 0, call)
        ELSE Return(os, ps, params)

\* _data() that, for a transform linked to a linked transform, reads the
\* parameters of the target's target instead of the target's buffer.
_data_two_levels(os, ps, i, oc) ==
    LET o == os[i]
        params == GetAttrParams(o, ps)
        theirs == IF params.k = "obj" THEN GetAttrParams(os[params.id], ps) ELSE Absent
    IN  IF params = NoneV THEN Raise(os, ps, "AssertionError")
        ELSE IF params.k = "obj"
        THEN IF theirs.k = "obj" THEN do_data_get(os, ps, theirs.id)
             ELSE do_data_get(os, ps, params.id)
        ELSE IF Callable(params)
        THEN LET pred == Predict(o._args, o._kwargs, oc)
                 call == <<CondV(o._args, o._kwargs)>>
             IN  IF CheckTensor(pred) # "ok"
                 THEN Ret(os, ps, CheckTensor(pred), Absent, NoField, 0, 0, call)
                 ELSE Ret(os, ps, "ok", pred, NoField, 0, 0, call)
        ELSE Return(os, ps, params)

\* _data(): the most recent parameters
_data(os, ps, i, oc) ==
    LET o == os[i]
        params == GetAttrParams(o, ps)
    IN  IF params = NoneV THEN Raise(os, ps, "AssertionError")
        ELSE IF params.k = "obj" THEN do_data_get(os, ps, params.id)
        ELSE IF Callable(params)
        THEN LET pred == Predict(o._args, o._kwargs, oc)
                 call == <<CondV(o._args, o._kwargs)>>
             IN  IF CheckTensor(pred) # "ok"
                 THEN Ret(os, ps, CheckTensor(pred), Absent, NoField, 0, 0, call)
                 ELSE Ret(os, ps, "ok", pred, NoField, 0, 0, call)
        ELSE Return(os, ps, params)

\* data(arg): shallow copy with the specified parameters
do_data_copy(os, ps, i, arg, n) ==
    LET o == os[i]
        params == GetAttrParams(o, ps)
        copy == shallow_copy(o, n)
        c1 == IF Callable(params) THEN [copy EXCEPT !.p = Absent] ELSE copy
        v == IF IsParameter(params) /\ ~IsParameter(arg) THEN Parameter(arg) ELSE arg
        s == SetAttrParams(c1, ps, v)
    IN  IF CheckTensor(arg) # "ok" THEN Raise(os, ps, CheckTensor(arg))
        ELSE IF Callable(params) /\ copy.p = Absent THEN Raise(os, ps, "AttributeError")
        ELSE IF s.err # "ok" THEN Raise(os, ps, s.err)
        ELSE ReturnObj(Put(os, n, clear_buffers_of(s.o)), s.ps, n)

\* data_(arg) that validates the argument before it looks at the parameter source.
do_data__validates_first(os, ps, i, arg) ==
    LET o == os[i]
        params == GetAttrParams(o, ps)
        v == IF IsParameter(params) /\ ~IsParameter(arg) THEN Parameter(arg) ELSE arg
        s == SetAttrParams(o, ps, v)
    IN  IF CheckTensor(arg) # "ok" THEN Raise(os, ps, CheckTensor(arg))
        ELSE IF Callable(params) THEN Raise(os, ps, "ReadOnlyParameters")
        ELSE IF s.err # "ok" THEN Raise(os, ps, s.err)
        ELSE ReturnObj(Put(os, i, clear_buffers_of(s.o)), s.ps, i)

\* data_(arg): replace the parameters in place
do_data_(os, ps, i, arg) ==
    LET o == os[i]
        params == GetAttrParams(o, ps)
        v == IF IsParameter(params) /\ ~IsParameter(arg) THEN Parameter(arg) ELSE arg
        s == SetAttrParams(o, ps, v)
    IN  IF Callable(params) THEN Raise(os, ps, "ReadOnlyParameters")
        ELSE IF CheckTensor(arg) # "ok" THEN Raise(os, ps, CheckTensor(arg))
        ELSE IF s.err # "ok" THEN Raise(os, ps, s.err)
        ELSE ReturnObj(Put(os, i, clear_buffers_of(s.o)), s.ps, i)

\* link_(other) applied to the instance in slot n (the receiver or its fresh copy);
\* j = 0 stands for a transform of another concrete type.
do_link_(os, ps, n, j) ==
    LET o == os[n]
        s == SetAttrParams(o, ps, ObjV(j))
        os1 == Put(os, n, s.o)
        otherNone == GetAttrParams(os1[j], s.ps) = NoneV
        d == do_data_get(os1, s.ps, j)
        empty == clear_buffers_of([s.o EXCEPT !.p = Tensor("z", FALSE, "nobatch")])
    IN  IF j = n THEN Raise(os, ps, "ValueError")
        ELSE IF j = 0 THEN Raise(os, ps, "TypeError")
        ELSE IF s.err # "ok" THEN Raise(os, ps, s.err)
        ELSE IF s.o.p # Absent THEN ReturnObj(os1, s.ps, n)
        ELSE IF otherNone THEN ReturnObj(Put(os, n, empty), s.ps, n)
        ELSE IF d.status # "ok" THEN Raise(os1, s.ps, d.status)
        ELSE ReturnObj(Put(os, n, [s.o EXCEPT !.p = d.out]), s.ps, n)

\* reset_parameters() of the instance in slot i: the parameter tensor is zeroed
\* in place, so every transform that holds the same tensor sees the zeros.
do_reset_parameters(os, ps, i) ==
    LET o == os[i]
        params == GetAttrParams(o, ps)
        target == IF Callable(params) THEN o.p ELSE params
    IN  IF params = Absent THEN Raise(os, ps, "AttributeError")
        ELSE IF params = NoneV THEN Return(os, ps, NoneV)
        ELSE IF target = Absent THEN Raise(os, ps, "AttributeError")
        ELSE Bind(InPlace(os, ps, {target.store}, constant_), LAMBDA z :
                  Return(Put(z.objs, i, clear_buffers_of(z.objs[i])), z.ps, NoneV))

\* unlink_() applied to the instance in slot n
do_unlink_(os, ps, n) ==
    LET s == SetAttrParams(os[n], ps, NoneV)
    IN  ReturnObj(Put(os, n, [s.o EXCEPT !.p = Absent]), s.ps, n)

\* ---------------------------------------------------------------- update()
\* NonRigidTransform.update: registers nothing.
NonRigidTransform_update(o, ps) == [o |-> o, status |-> "ok"]

\* update() of a concrete subclass c of NonRigidTransform: it derives u from
\* self.data() and the grid.  "svf" registers well-formed u and v; "badrank" and
\* "badchan" register a u of the wrong rank or channel count; "unregistered" sets
\* u as a plain attribute instead of a buffer.
Subclass_update(c, o, ps) ==
    LET params == GetAttrParams(o, ps)
        d == IF params = NoneV THEN [status |-> "AssertionError", out |-> Absent]
             ELSE IF Callable(params)
             THEN IF o.p = Absent THEN [status |-> "AttributeError", out |-> Absent]
                  ELSE [status |-> "ok", out |-> o.p]
             ELSE [status |-> "ok", out |-> params]
        shape == IF c = "svf" THEN "ok" ELSE c
    IN  IF d.status # "ok" THEN [o |-> o, status |-> d.status]
        ELSE [o |-> [o EXCEPT !.u = Field(Values(d.out), o._grid, o.invert, shape),
                              !.v = IF c = "svf"
                                    THEN Field(Values(d.out), o._grid, FALSE, "ok")
                                    ELSE NoField],
              status |-> "ok"]

\* super().update() in ParametricTransform.update, for the concrete class c:
\* "base" is a class that does not override NonRigidTransform.update.
SubUpdate(c, o, ps) ==
    IF c = "base" THEN NonRigidTransform_update(o, ps) ELSE Subclass_update(c, o, ps)

\* update() that resolves the parameters whether or not buffer p is registered.
do_update_always_resolves(c, os, ps, i, oc) ==
    LET o == os[i]
        Sub(o1, calls) ==
            Bind(SubUpdate(c, o1, ps), LAMBDA s :
                 IF s.status # "ok"
                 THEN Ret(Put(os, i, o1), ps, s.status, Absent, NoField, 0, 1, calls)
                 ELSE Ret(Put(os, i, s.o), ps, "ok", Absent, NoField, i, 1, calls))
    IN  Bind(_data(os, ps, i, oc), LAMBDA d :
             IF d.status # "ok"
             THEN Ret(os, ps, d.status, Absent, NoField, 0, 1, d.calls)
             ELSE Sub([o EXCEPT !.p = d.out], d.calls))

\* ParametricTransform.update
do_update(c, os, ps, i, oc) ==
    LET o == os[i]
        hasp == o.p # Absent
        Sub(o1, calls) ==
            Bind(SubUpdate(c, o1, ps), LAMBDA s :
                 IF s.status # "ok"
                 THEN Ret(Put(os, i, o1), ps, s.status, Absent, NoField, 0, 1, calls)
                 ELSE Ret(Put(os, i, s.o), ps, "ok", Absent, NoField, i, 1, calls))
    IN  IF ~hasp THEN Sub(o, <<>>)
        ELSE Bind(_data(os, ps, i, oc), LAMBDA d :
                  IF d.status # "ok"
                  THEN Ret(os, ps, d.status, Absent, NoField, 0, 1, d.calls)
                  ELSE Sub([o EXCEPT !.p = d.out], d.calls))

\* ---------------------------------------------------------------- NonRigidTransform
\* The checks of tensor() without the check of the number of channels.
CheckU_no_channels(u, ndim) ==
    IF u = NoField \/ u.shape = "unregistered" THEN "AssertionError"
    ELSE IF u.shape = "badrank" THEN "AssertionError"
    ELSE "ok"

\* The checks of tensor() on buffer u
CheckU(u, ndim) ==
    IF u = NoField \/ u.shape = "unregistered" THEN "AssertionError"
    ELSE IF u.shape = "badrank" THEN "AssertionError"
    ELSE IF u.shape = "badchan" THEN "AssertionError"
    ELSE "ok"

\* tensor() that calls update() whether or not u is cached.
do_tensor_always_updates(c, os, ps, i, oc) ==
    LET ndim == os[i]._grid.ndim
    IN  Bind(do_update(c, os, ps, i, oc), LAMBDA r :
             IF r.status # "ok" THEN r
             ELSE IF CheckU(r.objs[i].u, ndim) # "ok"
             THEN Ret(r.objs, r.ps, CheckU(r.objs[i].u, ndim), Absent, NoField, 0,
                      r.upd, r.calls)
             ELSE Ret(r.objs, r.ps, "ok", Absent, r.objs[i].u, 0, r.upd, r.calls))

\* NonRigidTransform.tensor
do_tensor(c, os, ps, i, oc) ==
    LET o == os[i]
        ndim == o._grid.ndim
    IN  IF o.u # NoField
        THEN IF CheckU(o.u, ndim) # "ok" THEN Raise(os, ps, CheckU(o.u, ndim))
             ELSE Ret(os, ps, "ok", Absent, o.u, 0, 0, <<>>)
        ELSE Bind(do_update(c, os, ps, i, oc), LAMBDA r :
                  IF r.status # "ok" THEN r
                  ELSE IF CheckU(r.objs[i].u, ndim) # "ok"
                  THEN Ret(r.objs, r.ps, CheckU(r.objs[i].u, ndim), Absent, NoField, 0,
                           r.upd, r.calls)
                  ELSE Ret(r.objs, r.ps, "ok", Absent, r.objs[i].u, 0, r.upd, r.calls))

\* SpatialTransform.disp: the field sampled on grid g (NoGrid: self.grid())
do_disp(c, os, ps, i, g, oc) ==
    LET grid == IF g = NoGrid THEN os[i]._grid ELSE g
    IN  Bind(do_tensor(c, os, ps, i, oc), LAMBDA t :
             IF t.status # "ok" THEN t
             ELSE [t EXCEPT !.fld = [t.fld EXCEPT !.g = grid]])

\* SpatialTransform.flow: FlowFields(self.disp(grid), grid)
do_flow(c, os, ps, i, g, oc) == do_disp(c, os, ps, i, g, oc)

\* ---------------------------------------------------------------- SpatialTransform
\* grid_(grid) without the comparison of the numbers of dimensions.
do_grid__any_ndim(os, ps, n, g) ==
    LET o == os[n]
    IN  IF o._grid = g THEN ReturnObj(os, ps, n)
        ELSE ReturnObj(Put(os, n, [clear_buffers_of(o) EXCEPT !._grid = g]), ps, n)

\* grid_(grid) applied to the instance in slot n
do_grid_(os, ps, n, g) ==
    LET o == os[n]
    IN  IF o._grid = g THEN ReturnObj(os, ps, n)
        ELSE IF g.ndim # o._grid.ndim THEN Raise(os, ps, "ValueError")
        ELSE ReturnObj(Put(os, n, [clear_buffers_of(o) EXCEPT !._grid = g]), ps, n)

\* condition_ that stores the arguments without clearing the buffers.
do_condition__keeps_buffers(os, ps, n, a, kw) ==
    ReturnObj(Put(os, n, [os[n] EXCEPT !._args = a, !._kwargs = kw]), ps, n)

\* condition_(*args, **kwargs) applied to the instance in slot n
do_condition_(os, ps, n, a, kw) ==
    ReturnObj(Put(os, n, [clear_buffers_of(os[n]) EXCEPT !._args = a, !._kwargs = kw]),
              ps, n)

\* condition(*args, **kwargs): a conditioned copy in slot n, or the stored arguments
do_condition(os, ps, i, a, kw, n) ==
    IF a # "none"
    THEN do_condition_([os EXCEPT ![n] = shallow_copy(os[i], n)], ps, n, a, "none")
    ELSE Return(os, ps, CondV(os[i]._args, os[i]._kwargs))

\* InvertibleParametricTransform.inverse(link, update_buffers) into slot n
do_inverse(os, ps, i, link, update_buffers, n) ==
    LET os1 == [os EXCEPT ![n] = shallow_copy(os[i], n)]
        l == IF link THEN do_link_(os1, ps, n, i) ELSE ReturnObj(os1, ps, n)
    IN  IF l.status # "ok" THEN Raise(os, ps, l.status)
        ELSE ReturnObj(Put(l.objs, n, [l.objs[n] EXCEPT !.invert = ~os[i].invert]),
                       l.ps, n)

\* ---------------------------------------------------------------- ConfigurableTransform
\* The child modules a ConfigurableTransform can have (AFFINE_NAMES and
\* "nonrigid"), in the order in which _data() routes the entries of a prediction.
SubNames ==
    <<"affine", "shearing", "translation", "rotation", "scaling", "quaternion", "nonrigid">>

Pos(name) == CHOOSE k \in 1..Len(SubNames) : SubNames[k] = name

\* The original and the inverse made of it.
ConfIds == {1, 2}

\* The heap slot of the sub-transform 'name' of instance c.
Sub(c, name) == (c - 1) * Len(SubNames) + Pos(name)

SubSlots == 1..(Cardinality(ConfIds) * Len(SubNames))

\* The second key _data() looks up when the mapping has no entry under the name.
Alias(name) ==
    IF name = "translation" THEN "offset"
    ELSE IF name = "rotation" THEN "angles"
    ELSE IF name = "scaling" THEN "scales"
    ELSE IF name = "nonrigid" THEN "vfield"
    ELSE name

Aliases == {"offset", "angles", "scales", "vfield"}

PredKeys == {SubNames[k] : k \in 1..Len(SubNames)} \cup Aliases \cup {"extra"}

\* ---------------------------------------------------------------- transformation models
\* A string is a sequence of pieces: the separator " o ", and pieces of text
\* that contain no separator.  Concatenating pieces of text gives a text that
\* is none of the pieces.
Separator == " o "

\* The longest config.transform and config.affine_model, in pieces.
MaxPieces == 3

MaxLetters == 3

\* The pieces of config.transform: component names and some other text.
TransformPieces == {"Affine", "SVF", "FFD", "Spline", Separator}

\* The pieces of config.affine_model: the letters of AFFINE_TRANSFORMS, a
\* lower-case letter, a character that is no letter of it, and the separator.
AffinePieces == {"A", "K", "T", "R", "S", "Q", "t", "x", Separator}

NONRIGID_TRANSFORMS == {"DDF", "FFD", "SVF", "SVFFD"}

VALID_COMPONENTS == {"Affine"} \cup NONRIGID_TRANSFORMS

AFFINE_TRANSFORMS == {"A", "K", "T", "R", "S", "Q"}

AFFINE_NAMES(key) ==
    IF key = "A" THEN "affine"
    ELSE IF key = "K" THEN "shearing"
    ELSE IF key = "T" THEN "translation"
    ELSE IF key = "R" THEN "rotation"
    ELSE IF key = "S" THEN "scaling"
    ELSE "quaternion"

\* A comparison of the characters as they are written.
upper_as_written(ch) == ch

\* str.upper() of one character
upper(ch) == IF ch = "t" THEN "T" ELSE IF ch = "x" THEN "X" ELSE ch

\* str.split(" o "): the texts between the separators, each a sequence of
\* pieces; tokens are the texts split off so far, text is the current one.
RECURSIVE split(_, _, _, _)
split(str, k, tokens, text) ==
    IF k > Len(str) THEN Append(tokens, text)
    ELSE IF str[k] = Separator THEN split(str, k + 1, Append(tokens, text), <<>>)
    ELSE split(str, k + 1, tokens, Append(text, str[k]))

\* transform_components(model)
transform_components(model) == split(model, 1, <<>>, <<>>)

\* component in names, for a text given as a sequence of pieces
IsOneOf(text, names) == Len(text) = 1 /\ text[1] \in names

\* valid_transform_model without the limit on the affine components.
valid_transform_model_any_affine(model, max_affine, max_nonrigid) ==
    LET components == transform_components(model)
        at == 1..Len(components)
        num_nonrigid == Cardinality({k \in at : IsOneOf(components[k], NONRIGID_TRANSFORMS)})
    IN  /\ \A k \in at : IsOneOf(components[k], VALID_COMPONENTS)
        /\ ~(Len(components) < 1)
        /\ \A m \in max_nonrigid : ~(num_nonrigid > m)

\* valid_transform_model(model, max_affine, max_nonrigid); a limit is the empty
\* set for None and {m} for the integer m.
valid_transform_model(model, max_affine, max_nonrigid) ==
    LET components == transform_components(model)
        at == 1..Len(components)
        num_affine == Cardinality({k \in at : IsOneOf(components[k], {"Affine"})})
        num_nonrigid == Cardinality({k \in at : IsOneOf(components[k], NONRIGID_TRANSFORMS)})
    IN  /\ \A k \in at : IsOneOf(components[k], VALID_COMPONENTS)
        /\ ~(Len(components) < 1)
        /\ \A m \in max_affine : ~(num_affine > m)
        /\ \A m \in max_nonrigid : ~(num_nonrigid > m)

\* has_affine_component(model)
has_affine_component(model) ==
    \E k \in 1..Len(transform_components(model)) :
        IsOneOf(transform_components(model)[k], {"Affine"})

\* nonrigid_components(model)
nonrigid_components(model) ==
    SelectSeq(transform_components(model), LAMBDA text : IsOneOf(text, NONRIGID_TRANSFORMS))

\* A test of the first component instead of the last.
affine_first_component(model) == IsOneOf(transform_components(model)[1], {"Affine"})

\* affine_first(model)
affine_first(model) ==
    IsOneOf(transform_components(model)[Len(transform_components(model))], {"Affine"})

\* str.replace(" o ", "")
without_separators(str) == SelectSeq(str, LAMBDA ch : ch # Separator)

\* The names in the ModuleDict modules.
Names(modules) == {modules[k] : k \in 1..Len(modules)}

\* The outcome of building the ModuleDict: the names in insertion order, or the
\* exception raised.
Built(status, modules) == [status |-> status, modules |-> modules]

\* The loop over the characters that inserts each sub-transform before the ones
\* inserted so far.
RECURSIVE affine_modules_in_letter_order(_, _, _)
affine_modules_in_letter_order(letters, k, modules) ==
    IF k = 0 THEN Built("ok", modules)
    ELSE IF upper(letters[k]) \notin AFFINE_TRANSFORMS THEN Built("ValueError", <<>>)
    ELSE IF AFFINE_NAMES(upper(letters[k])) \in Names(modules)
    THEN Built("NotImplementedError", <<>>)
    ELSE affine_modules_in_letter_order(letters, k - 1,
                                        <<AFFINE_NAMES(upper(letters[k]))>> \o modules)

\* The loop of __init__ over reversed(config.affine_model.replace(" o ", "")),
\* at the k-th character from the left (k = 0: done).
RECURSIVE affine_modules(_, _, _)
affine_modules(letters, k, modules) ==
    IF k = 0 THEN Built("ok", modules)
    ELSE IF upper(letters[k]) \notin AFFINE_TRANSFORMS THEN Built("ValueError", <<>>)
    ELSE IF AFFINE_NAMES(upper(letters[k])) \in Names(modules)
    THEN Built("NotImplementedError", <<>>)
    ELSE affine_modules(letters, k - 1, Append(modules, AFFINE_NAMES(upper(letters[k]))))

\* The ModuleDict that __init__ builds for config.transform and
\* config.affine_model.
build_modules(transform, affine_model) ==
    LET letters == without_separators(affine_model)
        affine == IF has_affine_component(transform)
                  THEN affine_modules(letters, Len(letters), <<>>)
                  ELSE Built("ok", <<>>)
        nonrigid_models == nonrigid_components(transform)
    IN  IF ~valid_transform_model(transform, {1}, {1}) THEN Built("ValueError", <<>>)
        ELSE IF affine.status # "ok" THEN affine
        ELSE IF Len(nonrigid_models) > 1 THEN Built("ValueError", <<>>)
        ELSE IF nonrigid_models = <<>> THEN affine
        ELSE IF affine_first(transform)
        THEN Built("ok", affine.modules \o <<"nonrigid">>)
        ELSE Built("ok", <<"nonrigid">> \o affine.modules)

\* TransformConfig: the sub-transforms that 'transform' and 'affine_model' name,
\* in the order in which the constructor inserts them into its ModuleDict, the
\* set of their names, and flip_grid_coords.
Config(modules, flip) == [modules |-> modules, present |-> Names(modules), flip |-> flip]

\* The sub-transforms of 'Affine o SVF' with 'TRS', 'SVF o Affine' with 'A',
\* 'Affine' with 'QT', 'Affine' with 'KS', and 'Affine' with an empty affine
\* model.
Models ==
    { build_modules(<<"Affine", Separator, "SVF">>, <<"T", "R", "S">>).modules,
      build_modules(<<"SVF", Separator, "Affine">>, <<"A">>).modules,
      build_modules(<<"Affine">>, <<"Q", "T">>).modules,
      build_modules(<<"Affine">>, <<"K", "S">>).modules,
      build_modules(<<"Affine">>, <<>>).modules }

\* The models with flip_grid_coords=false, and those without a rotation given
\* as Euler angles with flip_grid_coords=true.
Configs ==
    {Config(m, FALSE) : m \in Models} \cup
    {Config(m, TRUE) : m \in {n \in Models : "rotation" \notin Names(n)}}

\* The 'params' argument of the constructor.
ConfParams == {"None", "True", "fn", "net", "Mapping", "other"}

\* ---------------------------------------------------------------- predictions
\* What a predictor returns: a Mapping from keys to entries (Absent: no entry
\* under the key), or something that is not a Mapping.
Prediction(mapping, at) == [mapping |-> mapping, at |-> at]

\* The entry a predictor stores under key k.
EntryOf(k, shape) == Tensor(k, FALSE, shape)

\* A mapping with an entry under every sub-transform name.
FullPred ==
    [k \in PredKeys |-> IF k \in Aliases THEN Absent ELSE EntryOf(k, "ok")]

\* A mapping that uses the alias keys wherever _data() has one.
AliasPred ==
    [k \in PredKeys |-> IF k # Alias(k) THEN Absent ELSE EntryOf(k, "ok")]

\* A mapping with entries under the names and under the aliases.
BothPred == [k \in PredKeys |-> EntryOf(k, "ok")]

\* The shapes of an entry, for a sub-transform with data_shape (D, D + 1) and N
\* the batch size: "ok" is (N, D, D + 1); "badrank" has a dimension too many,
\* (1, N, D, D + 1); "badshape" has the right number of dimensions and other
\* sizes that still end in (n, n + 1), such as (N, D + 1, D + 2); "nonmatrix"
\* has the right number of dimensions and does not end in (n, n + 1), such as
\* (N, D, D + 2); "nobatch" is (D, D + 1); "vector" is one-dimensional.
MatrixShapes == {"ok", "badrank", "badshape", "nobatch"}

EntriesAt(k) ==
    {Absent, NonTensor, EntryOf(k, "ok"), EntryOf(k, "badrank"), EntryOf(k, "badshape")} \cup
    (IF k = "affine"
     THEN {EntryOf(k, "nonmatrix"), EntryOf(k, "nobatch"), EntryOf(k, "vector")} ELSE {})

\* The predictions: not a Mapping; the three mappings; the full mapping with the
\* entry under one key missing or replaced.
Predictions ==
    {Prediction(FALSE, FullPred), Prediction(TRUE, AliasPred), Prediction(TRUE, BothPred)} \cup
    UNION { {Prediction(TRUE, [FullPred EXCEPT ![k] = e]) : e \in EntriesAt(k)} : k \in PredKeys }

\* Tensor.flip and the conversions _data() applies when flip_grid_coords is set.
Flipped(t) == [t EXCEPT !.a = "flip"]

\* ---------------------------------------------------------------- instances
NoConfigurable ==
    [alive |-> FALSE, config |-> Config(<<>>, FALSE), params |-> Absent,
     _transforms |-> <<>>, _args |-> "none", _kwargs |-> "none"]

\* A reference to the ConfigurableTransform instance c.
ConfV(c) == Val("conf", "-", FALSE, "-", c, "-", "-")

\* The outcome of a call on a ConfigurableTransform: cf, objs, ps are the
\* instances and the heap the call leaves; status is "ok" or the exception;
\* data is what _data() returns; new is the instance returned (0: none); calls
\* are the conditioning arguments of every predictor invocation; sets are the
\* data_() calls made on sub-transforms, in order.
ConfRet(cf, os, ps, status, data, new, calls, sets) ==
    [conf |-> cf, objs |-> os, ps |-> ps, status |-> status, data |-> data,
     new |-> new, calls |-> calls, sets |-> sets]

ConfRaise(cf, os, ps, status) == ConfRet(cf, os, ps, status, <<>>, 0, <<>>, <<>>)

\* The sub-transforms of instance c on an empty heap, each constructed with
\* params=spec.
NewSubs(c, present, spec) ==
    [i \in SubSlots |->
        IF \E name \in present : i = Sub(c, name) THEN NewObj(i, spec) ELSE NoObj]

NewSubStores(c, present, spec) ==
    [i \in SubSlots |->
        IF \E name \in present : i = Sub(c, name) THEN NewStore(spec) ELSE Absent]

\* The value of _transforms of an instance that has no such attribute yet.
NoTransforms == <<"-">>

\* SequentialTransform.named_transforms(): the (name, transform) pairs of
\* self._transforms, in the order of the ModuleDict; before
\* SequentialTransform.__init__ ran there is no attribute _transforms.
named_transforms(o) ==
    IF o._transforms = NoTransforms THEN [status |-> "AttributeError", names |-> <<>>]
    ELSE [status |-> "ok", names |-> o._transforms]

\* A lookup of the entries by the name of the sub-transform only.
Routed_by_name(name, at) == at[name]

\* The entry of the mapping at that _data() routes to sub-transform 'name'.
Routed(name, at) ==
    IF name \in {"affine", "quaternion"} THEN at[name]
    ELSE IF at[name] # Absent THEN at[name]
    ELSE at[Alias(name)]

\* The lookup and the assertions of _data() on the entry e for sub-transform 'name'.
CheckEntry(name, e) ==
    IF e = Absent THEN "KeyError"
    ELSE IF ~IsTensor(e) THEN "AssertionError"
    ELSE IF name = "affine" /\ e.shape \notin MatrixShapes THEN "AssertionError"
    ELSE "ok"

\* The conversion of entry e for sub-transform 'name' when flip_grid_coords is
\* set: flip((1, 2)) of the affine matrix needs three dimensions.
FlipEntry(name, e) ==
    IF name = "affine" /\ e.shape = "nobatch" THEN "IndexError" ELSE "ok"

\* The branches of _data() from the k-th sub-transform name on: data holds the
\* (name, tensor) pairs gathered so far.
RECURSIVE Route(_, _, _, _, _)
Route(present, at, flip, k, data) ==
    IF k > Len(SubNames) THEN [status |-> "ok", data |-> data]
    ELSE IF SubNames[k] \notin present \/ SubNames[k] = "shearing"
    THEN Route(present, at, flip, k + 1, data)
    ELSE LET name == SubNames[k]
             e == Routed(name, at)
         IN  IF CheckEntry(name, e) # "ok"
             THEN [status |-> CheckEntry(name, e), data |-> <<>>]
             ELSE IF flip /\ FlipEntry(name, e) # "ok"
             THEN [status |-> FlipEntry(name, e), data |-> <<>>]
             ELSE Route(present, at, flip, k + 1,
                        Append(data, <<name, IF flip THEN Flipped(e) ELSE e>>))

\* The current data() of the sub-transforms 'names', from the k-th on.
RECURSIVE Current(_, _, _, _, _, _)
Current(os, ps, c, names, k, data) ==
    IF k > Len(names) THEN [status |-> "ok", data |-> data]
    ELSE LET d == do_data_get(os, ps, Sub(c, names[k]))
         IN  IF d.status # "ok" THEN [status |-> d.status, data |-> <<>>]
             ELSE Current(os, ps, c, names, k + 1, Append(data, <<names[k], d.out>>))

\* ConfigurableTransform._data of instance c; pred is what the predictor
\* returns if it is invoked.
Configurable_data(cf, os, ps, c, pred) ==
    LET self == cf[c]
        params == self.params
        nt == named_transforms(self)
        cur == Current(os, ps, c, nt.names, 1, <<>>)
        called == <<CondV(self._args, self._kwargs)>>
        r == Route(Names(self._transforms), pred.at, self.config.flip, 1, <<>>)
    IN  IF self._transforms = <<>> THEN ConfRet(cf, os, ps, "ok", <<>>, 0, <<>>, <<>>)
        ELSE IF params = NoneV
        THEN ConfRet(cf, os, ps, cur.status, cur.data, 0, <<>>, <<>>)
        ELSE IF params.k = "conf" THEN ConfRet(cf, os, ps, "ok", <<>>, 0, <<>>, <<>>)
        ELSE IF ~Callable(params) THEN ConfRaise(cf, os, ps, "TypeError")
        ELSE IF ~pred.mapping
        THEN ConfRet(cf, os, ps, "TypeError", <<>>, 0, called, <<>>)
        ELSE ConfRet(cf, os, ps, r.status, r.data, 0, called, <<>>)

\* The loop of update() over the items of the mapping _data() returned, from
\* the k-th item on: sets are the data_() calls made so far.
RECURSIVE ApplyData(_, _, _, _, _, _)
ApplyData(os, ps, c, data, k, sets) ==
    IF k > Len(data) THEN [objs |-> os, ps |-> ps, status |-> "ok", sets |-> sets]
    ELSE Bind(do_data_(os, ps, Sub(c, data[k][1]), data[k][2]), LAMBDA s :
              IF s.status # "ok"
              THEN [objs |-> s.objs, ps |-> s.ps, status |-> s.status,
                    sets |-> Append(sets, data[k])]
              ELSE ApplyData(s.objs, s.ps, c, data, k + 1, Append(sets, data[k])))

\* The class whose update() the sub-transform 'name' runs: the non-rigid
\* component registers u and v, the linear ones register no vector field.
SubClass(name) == IF name = "nonrigid" THEN "svf" ELSE "base"

\* SequentialTransform.update: update() of every sub-transform in the order of
\* the ModuleDict, from the k-th on.
RECURSIVE Sequential_update(_, _, _, _, _)
Sequential_update(os, ps, c, names, k) ==
    IF k > Len(names) THEN [objs |-> os, ps |-> ps, status |-> "ok"]
    ELSE Bind(do_update(SubClass(names[k]), os, ps, Sub(c, names[k]), "ok"), LAMBDA u :
              IF u.status # "ok" THEN [objs |-> u.objs, ps |-> u.ps, status |-> u.status]
              ELSE Sequential_update(u.objs, u.ps, c, names, k + 1))

\* ConfigurableTransform.update of instance c
Configurable_update(cf, os, ps, c, pred) ==
    LET Super(os1, ps1, calls, sets) ==
            Bind(Sequential_update(os1, ps1, c, cf[c]._transforms, 1), LAMBDA u :
                 ConfRet(cf, u.objs, u.ps, u.status, <<>>,
                         IF u.status = "ok" THEN c ELSE 0, calls, sets))
    IN  IF cf[c].params = NoneV THEN Super(os, ps, <<>>, <<>>)
        ELSE Bind(Configurable_data(cf, os, ps, c, pred), LAMBDA d :
                  IF d.status # "ok" THEN ConfRet(cf, os, ps, d.status, <<>>, 0, d.calls, <<>>)
                  ELSE Bind(ApplyData(os, ps, c, d.data, 1, <<>>), LAMBDA a :
                            IF a.status # "ok"
                            THEN ConfRet(cf, a.objs, a.ps, a.status, <<>>, 0, d.calls, a.sets)
                            ELSE Super(a.objs, a.ps, d.calls, a.sets)))

\* The loop of __init__ over named_transforms() for a Mapping argument: the
\* sub-transforms 'names' in the order of the ModuleDict, from the k-th on.
RECURSIVE InitData(_, _, _, _, _, _)
InitData(os, ps, c, names, at, k) ==
    IF k > Len(names) THEN [objs |-> os, ps |-> ps, status |-> "ok"]
    ELSE IF at[names[k]] = Absent THEN [objs |-> os, ps |-> ps, status |-> "KeyError"]
    ELSE Bind(do_data_(os, ps, Sub(c, names[k]), at[names[k]]), LAMBDA s :
              IF s.status # "ok" THEN [objs |-> s.objs, ps |-> s.ps, status |-> s.status]
              ELSE InitData(s.objs, s.ps, c, names, at, k + 1))

\* ConfigurableTransform.__init__(grid, params, config) as instance c; at is
\* the mapping given as 'params' when spec is "Mapping".
ConfigurableTransform_init(c, spec, at, config) ==
    LET subspec == IF spec = "True" THEN "True" ELSE "None"
        os == NewSubs(c, config.present, subspec)
        ps == NewSubStores(c, config.present, subspec)
        bare == [NoConfigurable EXCEPT !._transforms = NoTransforms]
        nt == named_transforms(bare)
        set == InitData(os, ps, c, nt.names, at, 1)
        self == [alive |-> TRUE, config |-> config,
                 params |-> IF spec = "fn" THEN Fn ELSE IF spec = "net" THEN Net ELSE NoneV,
                 _transforms |-> config.modules, _args |-> "none", _kwargs |-> "none"]
        empty == [i \in ConfIds |-> NoConfigurable]
    IN  IF spec = "other"
        THEN ConfRaise(empty, NewSubs(c, {}, subspec), NewSubStores(c, {}, subspec), "TypeError")
        ELSE IF spec = "Mapping" /\ nt.status # "ok" THEN ConfRaise(empty, os, ps, nt.status)
        ELSE IF spec = "Mapping" /\ set.status # "ok"
        THEN ConfRaise(empty, set.objs, set.ps, set.status)
        ELSE IF spec = "Mapping"
        THEN ConfRet([empty EXCEPT ![c] = self], set.objs, set.ps, "ok", <<>>, c, <<>>, <<>>)
        ELSE ConfRet([empty EXCEPT ![c] = self], os, ps, "ok", <<>>, c, <<>>, <<>>)

\* SequentialTransform.inverse(link, update_buffers) of instance c as instance
\* n: a shallow copy whose sub-transforms are the inverses of the sub-transforms
\* 'names' of c, made from the last one down to the k-th.
RECURSIVE Sequential_inverse(_, _, _, _, _, _, _, _)
Sequential_inverse(os, ps, c, n, names, lnk, update_buffers, k) ==
    IF k = 0 THEN [objs |-> os, ps |-> ps, status |-> "ok"]
    ELSE Bind(do_inverse(os, ps, Sub(c, names[k]), lnk, update_buffers, Sub(n, names[k])),
              LAMBDA s :
              IF s.status # "ok" THEN [objs |-> s.objs, ps |-> s.ps, status |-> s.status]
              ELSE Sequential_inverse(s.objs, s.ps, c, n, names, lnk, update_buffers, k - 1))

\* ConfigurableTransform.inverse(lnk, update_buffers) of instance c as instance n
Configurable_inverse(cf, os, ps, c, lnk, update_buffers, n) ==
    Bind(Sequential_inverse(os, ps, c, n, cf[c]._transforms, lnk, update_buffers,
                            Len(cf[c]._transforms)), LAMBDA s :
         IF s.status # "ok" THEN ConfRaise(cf, os, ps, s.status)
         ELSE LET inv == IF lnk THEN [cf[c] EXCEPT !.params = ConfV(c)] ELSE cf[c]
              IN  ConfRet([cf EXCEPT ![n] = inv], s.objs, s.ps, "ok", <<>>, n, <<>>, <<>>))

\* SequentialTransform.clear_buffers of instance c: clear_buffers() of every
\* sub-transform 'names', from the k-th on.
RECURSIVE Sequential_clear_buffers(_, _, _, _)
Sequential_clear_buffers(os, c, names, k) ==
    IF k > Len(names) THEN os
    ELSE Sequential_clear_buffers(
             Put(os, Sub(c, names[k]), clear_buffers_of(os[Sub(c, names[k])])), c, names, k + 1)

\* SpatialTransform.condition_(*args, **kwargs) of instance c: clear_buffers(),
\* then the arguments are stored.
Configurable_condition_(cf, os, ps, c, a, kw) ==
    ConfRet([cf EXCEPT ![c]._args = a, ![c]._kwargs = kw],
            Sequential_clear_buffers(os, c, cf[c]._transforms, 1), ps, "ok", <<>>, c,
            <<>>, <<>>)

\* ---------------------------------------------------------------- the state machine
\* A call with outcome r: the heap becomes the heap the call leaves, whether the
\* call returns or raises; what it returns or raises is r itself.
Step(r) ==
    \E x \in {r} :
        \E h \in {Numbered(x.objs, x.ps)} :
            /\ objs' = h.objs
            /\ pstore' = h.ps
            /\ UNCHANGED <<cls, conf, fitting, flows>>

\* A call that works on a fresh shallow copy: when it raises, the copy is dropped.
OnCopy(r) == IF r.status = "ok" THEN r ELSE Raise(objs, pstore, r.status)

WithCopy(i, n) == [objs EXCEPT ![n] = shallow_copy(objs[i], n)]

\* The predictor's choice matters only to a transform that has a predictor.
Chosen(oc, i) ==
    oc = "ok" \/ (objs[i].p # Absent /\ GetAttrParams(objs[i], pstore).k \in {"fn", "net"})

\* No ConfigurableTransform was constructed.
NoConf == <<>>

\* fit() was not called: pc is the position of the call, steps the limit of
\* gradient steps, target the input it fits, step the number of gradient steps
\* taken, hits the number of steps whose error was at most epsilon, error the
\* exception raised.
NoFit == [pc |-> "idle", steps |-> 0, target |-> 0, step |-> 0, hits |-> 0, error |-> "-"]

\* No flow field was constructed.
NoFlows == <<>>

\* Two constructed transforms of the concrete class c; the other slots are free.
Construct(s1, s2, c) ==
    /\ \E h \in {Numbered([i \in Slots |-> IF i = 1 THEN NewObj(1, s1)
                                           ELSE IF i = 2 THEN NewObj(2, s2) ELSE NoObj],
                          NewStores(s1, s2))} :
           /\ objs = h.objs
           /\ pstore = h.ps
    /\ cls = c
    /\ conf = NoConf
    /\ fitting = NoFit
    /\ flows = NoFlows

condition(i, a, kw) ==
    /\ i \in Alive /\ (a # "none" => HasFree)
    /\ Step(do_condition(objs, pstore, i, a, kw, IF a # "none" THEN FreeSlot ELSE i))

condition_(i, a, kw) ==
    /\ i \in Alive
    /\ Step(do_condition_(objs, pstore, i, a, kw))

grid(i, g) ==
    /\ i \in Alive /\ HasFree
    /\ Step(OnCopy(do_grid_(WithCopy(i, FreeSlot), pstore, FreeSlot, g)))

grid_(i, g) ==
    /\ i \in Alive
    /\ Step(do_grid_(objs, pstore, i, g))

data(i, arg) ==
    /\ i \in Alive /\ (arg # NoneV => HasFree)
    /\ Step(IF arg = NoneV THEN do_data_get(objs, pstore, i)
            ELSE do_data_copy(objs, pstore, i, arg, FreeSlot))

data_(i, arg) ==
    /\ i \in Alive
    /\ Step(do_data_(objs, pstore, i, arg))

link(i, j) ==
    /\ i \in Alive /\ j \in Alive \cup {0} /\ HasFree
    /\ Step(OnCopy(do_link_(WithCopy(i, FreeSlot), pstore, FreeSlot, j)))

link_(i, j) ==
    /\ i \in Alive /\ j \in Alive \cup {0}
    /\ Step(do_link_(objs, pstore, i, j))

unlink(i) ==
    /\ i \in Alive /\ HasFree
    /\ Step(do_unlink_(WithCopy(i, FreeSlot), pstore, FreeSlot))

unlink_(i) ==
    /\ i \in Alive
    /\ Step(do_unlink_(objs, pstore, i))

update(i, oc) ==
    /\ i \in Alive /\ Chosen(oc, i)
    /\ Step(do_update(cls, objs, pstore, i, oc))

tensor(i, oc) ==
    /\ i \in Alive /\ Chosen(oc, i)
    /\ Step(do_tensor(cls, objs, pstore, i, oc))

disp(i, g, oc) ==
    /\ i \in Alive /\ Chosen(oc, i)
    /\ Step(do_disp(cls, objs, pstore, i, g, oc))

flow(i, g, oc) ==
    /\ i \in Alive /\ Chosen(oc, i)
    /\ Step(do_flow(cls, objs, pstore, i, g, oc))

inverse(i, lnk, update_buffers) ==
    /\ i \in Alive /\ HasFree
    /\ Step(do_inverse(objs, pstore, i, lnk, update_buffers, FreeSlot))

clear_buffers(i) ==
    /\ i \in Alive
    /\ Step(ReturnObj(Put(objs, i, clear_buffers_of(objs[i])), pstore, i))

reset_parameters(i) ==
    /\ i \in Alive
    /\ Step(do_reset_parameters(objs, pstore, i))

\* ---------------------------------------------------------------- parameter sources
\* Two transforms constructed with every kind of 'params' argument, and the
\* calls that set, replace, link, unlink and resolve parameters.
Init == \E s1 \in ParamsSpecs, s2 \in ParamsSpecs : Construct(s1, s2, "base")

Next ==
    \/ \E i \in Slots, arg \in DataArgs \cup {NoneV} : data(i, arg)
    \/ \E i \in Slots, arg \in DataArgs : data_(i, arg)
    \/ \E i \in Slots, j \in Slots \cup {0} : link(i, j)
    \/ \E i \in Slots, j \in Slots \cup {0} : link_(i, j)
    \/ \E i \in Slots : unlink(i)
    \/ \E i \in Slots : unlink_(i)
    \/ \E i \in Slots, oc \in PredOutcomes : update(i, oc)
    \/ \E i \in Slots : reset_parameters(i)

Spec == Init /\ [][Next]_vars

\* ---------------------------------------------------------------- evaluation
\* One transform T (slot 1) of every concrete class and every kind of 'params'
\* argument, with an independent transform O (slot 2) to link to: the calls that
\* change T in place and the calls that evaluate it.
InitEval == \E s1 \in ParamsSpecs, c \in Classes : Construct(s1, "Tensor", c)

Evaluated == {1}

NextEval ==
    \/ \E i \in Evaluated, a \in CondArgs, kw \in CondKwargs : condition_(i, a, kw)
    \/ \E i \in Evaluated, g \in GridArgs : grid_(i, g)
    \/ \E i \in Evaluated, arg \in DataArgs : data_(i, arg)
    \/ \E i \in Evaluated, j \in Slots \ Evaluated : link_(i, j)
    \/ \E i \in Evaluated : unlink_(i)
    \/ \E i \in Evaluated, oc \in PredOutcomes : update(i, oc)
    \/ \E i \in Evaluated, oc \in PredOutcomes : tensor(i, oc)
    \/ \E i \in Evaluated, g \in {NoGrid, G1, G2}, oc \in PredOutcomes : disp(i, g, oc)
    \/ \E i \in Evaluated, g \in {NoGrid, G1, G2}, oc \in PredOutcomes : flow(i, g, oc)
    \/ \E i \in Evaluated : clear_buffers(i)
    \/ \E i \in Evaluated : reset_parameters(i)

SpecEval == InitEval /\ [][NextEval]_vars

\* ---------------------------------------------------------------- shallow copies
\* A transform T (slot 1), an independent transform O (slot 2) to link to, and
\* a shallow copy of T made by any of the copying calls: the calls that change
\* T or its copy in place.
Receivers == Slots \ {2}

InitCopy == \E s1 \in ParamsSpecs : Construct(s1, "Tensor", "svf")

NextCopy ==
    \/ \E i \in Receivers, a \in CondArgs : condition(i, a, "k1")
    \/ \E i \in Receivers, a \in CondArgs : condition_(i, a, IF a = "none" THEN "none" ELSE "k1")
    \/ \E i \in Receivers, g \in GridArgs : grid(i, g)
    \/ \E i \in Receivers, g \in GridArgs : grid_(i, g)
    \/ \E i \in Receivers, arg \in DataArgs \cup {NoneV} : data(i, arg)
    \/ \E i \in Receivers, arg \in DataArgs : data_(i, arg)
    \/ \E i \in Receivers : link(i, 2)
    \/ \E i \in Receivers : unlink(i)
    \/ \E i \in Receivers, lnk \in BOOLEAN, ub \in BOOLEAN : inverse(i, lnk, ub)
    \/ \E i \in Receivers : update(i, "ok")
    \/ \E i \in Receivers : clear_buffers(i)
    \/ \E i \in Receivers : reset_parameters(i)

SpecCopy == InitCopy /\ [][NextCopy]_vars

\* ---------------------------------------------------------------- configurable transforms
\* A call on a ConfigurableTransform with outcome r.
ConfStep(r) ==
    \E x \in {r} :
        /\ conf' = x.conf
        /\ objs' = x.objs
        /\ pstore' = x.ps
        /\ UNCHANGED <<cls, fitting, flows>>

Constructed == {c \in ConfIds : conf[c].alive}

\* The prediction matters only to an instance that has a predictor.
Predicts(c, pred) ==
    pred = Prediction(TRUE, FullPred) \/ Callable(conf[c].params)

conf_update(c, pred) ==
    /\ c \in Constructed /\ Predicts(c, pred)
    /\ ConfStep(Configurable_update(conf, objs, pstore, c, pred))

conf_condition_(c, a, kw) ==
    /\ c \in Constructed
    /\ ConfStep(Configurable_condition_(conf, objs, pstore, c, a, kw))

conf_inverse(c, lnk, update_buffers) ==
    /\ c \in Constructed /\ \E n \in ConfIds : ~conf[n].alive
    /\ ConfStep(Configurable_inverse(conf, objs, pstore, c, lnk, update_buffers,
                                     CHOOSE n \in ConfIds : ~conf[n].alive))

\* One ConfigurableTransform of every model, constructed with every kind of
\* 'params' argument the constructor accepts; its inverse; the calls that
\* condition and update either.
InitConf ==
    \E spec \in ConfParams, config \in Configs :
        \E x \in {ConfigurableTransform_init(1, spec, FullPred, config)} :
            /\ x.status = "ok"
            /\ conf = x.conf
            /\ objs = x.objs
            /\ pstore = x.ps
            /\ cls = "svf"
            /\ fitting = NoFit
            /\ flows = NoFlows

NextConf ==
    \/ \E c \in ConfIds, pred \in Predictions : conf_update(c, pred)
    \/ \E c \in ConfIds, a \in CondArgs : conf_condition_(c, a, "none")
    \/ \E c \in ConfIds, lnk \in BOOLEAN, ub \in BOOLEAN : conf_inverse(c, lnk, ub)

SpecConf == InitConf /\ [][NextConf]_vars

\* ---------------------------------------------------------------- fit
\* The most gradient steps a caller asks for.
MaxSteps == 3

\* kwargs.get("steps", 1000)
DefaultSteps == 1000

\* The 'steps' keyword argument: absent or an integer.
StepsArgs == {{}} \cup {{n} : n \in 0..MaxSteps}

\* The flow field to fit and epsilon: the least number of optimizer steps after
\* which a displacement field computed from the parameters has a mean squared
\* error of at most epsilon.
Targets == 0..MaxSteps

\* int(kwargs.get("steps", 1000))
StepsOf(kwsteps) == IF kwsteps = {} THEN DefaultSteps ELSE CHOOSE n \in kwsteps : TRUE

\* list(self.parameters()): the containers _parameters that hold a Parameter,
\* of the transform in slot i and of the transforms registered as its modules.
RECURSIVE parameters(_, _, _, _)
parameters(os, ps, i, depth) ==
    LET o == os[i]
        own == IF IsParameter(ps[o.pc]) THEN {o.pc} ELSE {}
    IN  IF depth = 0 \/ o.mparams.k # "obj" THEN own
        ELSE own \cup parameters(os, ps, o.mparams.id, depth - 1)

\* optimizer.step(): every parameter is changed in place.
optimizer_step(os, ps, params) ==
    InPlace(os, ps, {ps[k].store : k \in params}, LAMBDA t : [t EXCEPT !.rev = t.rev + 1])

\* error.le(epsilon).all() for the loss of displacement field fld.
converged(fld, target) == fld.src.rev >= target

\* The loop of _fit that runs all its steps whether or not one converged.
after_step_no_break(conv, step, steps) ==
    IF step + 1 >= steps THEN "returned" ELSE "loop"

\* The loop of _fit after a gradient step: 'if converged: break', else the next
\* step of range(steps), else the end of the loop.
after_step(conv, step, steps) ==
    IF conv \/ step + 1 >= steps THEN "returned" ELSE "loop"

\* A step of fit() that leaves heap r and position f.
FitStep(r, f) ==
    \E x \in {r} :
        \E h \in {Numbered(x.objs, x.ps)} :
            /\ objs' = h.objs
            /\ pstore' = h.ps
            /\ fitting' = f
            /\ UNCHANGED <<cls, conf, flows>>

\* SpatialTransform.fit up to the loop of _fit.
fit(kwsteps, target) ==
    /\ fitting.pc = "idle"
    /\ LET cleared == Put(objs, 1, clear_buffers_of(objs[1]))
           steps == StepsOf(kwsteps)
           called == [NoFit EXCEPT !.steps = steps, !.target = target]
       IN  FitStep(ReturnObj(cleared, pstore, 1),
                   IF parameters(cleared, pstore, 1, MaxObjs) = {}
                   THEN [called EXCEPT !.pc = "raised", !.error = "RuntimeError"]
                   ELSE IF steps <= 0 THEN [called EXCEPT !.pc = "returned"]
                   ELSE [called EXCEPT !.pc = "loop"])

\* One pass of the loop of _fit.
gradient_step ==
    /\ fitting.pc = "loop"
    /\ \E r \in {do_disp(cls, objs, pstore, 1, NoGrid, "ok")} :
           IF r.status # "ok"
           THEN FitStep(r, [fitting EXCEPT !.pc = "raised", !.error = r.status])
           ELSE LET conv == converged(r.fld, fitting.target)
                    stepped == optimizer_step(r.objs, r.ps,
                                              parameters(r.objs, r.ps, 1, MaxObjs))
                IN  FitStep(Ret(stepped.objs, stepped.ps, "ok", Absent, r.fld, 0, r.upd,
                                r.calls),
                            [fitting EXCEPT
                                !.pc = after_step(conv, fitting.step, fitting.steps),
                                !.step = fitting.step + 1,
                                !.hits = fitting.hits + (IF conv THEN 1 ELSE 0)])

\* A transform of every concrete class and every kind of 'params' argument but a
\* network (whose own weights are outside this model), fitted to a flow field
\* with every limit of steps, after an update() or without.
FitSpecs == ParamsSpecs \ {"net"}

InitFit == \E s1 \in FitSpecs, c \in Classes : Construct(s1, "Tensor", c)

NextFit ==
    \/ fitting.pc = "idle" /\ update(1, "ok")
    \/ \E kwsteps \in StepsArgs, target \in Targets : fit(kwsteps, target)
    \/ gradient_step

SpecFit == InitFit /\ [][NextFit]_vars

\* The loop of _fit is sequential code: a pass that can run does run.
FairFit == SpecFit /\ WF_vars(gradient_step)

\* ---------------------------------------------------------------- flow fields
\* The most flow fields in a batch and the most exponential maps applied to one.
MaxBatch == 2

MaxExp == 2

Domains == {"CUBE", "CUBE_CORNERS", "WORLD", "GRID"}

\* The 'domain' argument of a constructor: None or a Domain.
DomainArgs == Domains \cup {"None"}

\* A sampling grid of a flow field, by its align_corners flag.
FlowGrids == {[align_corners |-> FALSE], [align_corners |-> TRUE]}

\* Domain.from_grid
Domain_from_grid(g) == IF g.align_corners THEN "CUBE_CORNERS" ELSE "CUBE"

\* A data tensor of n flow fields (0: a single field without batch dimension):
\* frame is the domain its vectors are scaled and oriented for, exps the number
\* of exponential maps it went through.
FlowData(n, frame, exps) == [n |-> n, frame |-> frame, exps |-> exps]

\* Grid.transform_vectors(data, domain, codomain): vectors of 'domain' are
\* rescaled and reoriented for 'codomain'; applied to vectors of another domain
\* the result is of no domain.
transform_vectors(tdata, dom, codomain) ==
    [tdata EXCEPT !.frame = IF dom = codomain THEN tdata.frame
                            ELSE IF tdata.frame = dom THEN codomain ELSE "mixed"]

\* U.expv(data, align_corners)
expv(tdata, align_corners) == [tdata EXCEPT !.exps = tdata.exps + 1]

NoFlow == [kind |-> "none", _tensor |-> FlowData(0, "-", 0),
           _grid |-> [align_corners |-> FALSE], _domain |-> "-"]

\* The outcome of a call: the receiver after the call, what it returns, the
\* exception raised.
FlowRet(self, out, status) == [self |-> self, out |-> out, status |-> status]

\* FlowFields.__init__
FlowFields_init(tdata, g, dom) ==
    [kind |-> "FlowFields", _tensor |-> tdata, _grid |-> g,
     _domain |-> IF dom = "None" THEN Domain_from_grid(g) ELSE dom]

\* FlowField.__init__
FlowField_init(tdata, g, dom) ==
    [kind |-> "FlowField", _tensor |-> tdata, _grid |-> g,
     _domain |-> IF dom = "None" THEN Domain_from_grid(g) ELSE dom]

\* FlowFields.__getitem__
FlowFields_getitem(self, index) ==
    IF index >= self._tensor.n THEN FlowRet(self, NoFlow, "IndexError")
    ELSE FlowRet(self, FlowField_init([self._tensor EXCEPT !.n = 0], self._grid, "None"),
                 "ok")

\* FlowFields.tensor_ and FlowField.tensor_
tensor_(self, tdata, dom) ==
    [self EXCEPT !._tensor = tdata, !._domain = IF dom = "None" THEN self._domain ELSE dom]

\* FlowFields.domain_
FlowFields_domain_(self, dom) ==
    tensor_(self, transform_vectors(self._tensor, self._domain, dom), dom)

\* FlowFields.domain(domain): domain_() of a shallow copy
FlowFields_domain(self, dom) == FlowRet(self, FlowFields_domain_(self, dom), "ok")

\* FlowFields.exp_
FlowFields_exp_(self) ==
    LET dom == self._domain
        align_corners == dom = "CUBE_CORNERS"
        cube == FlowFields_domain_(self, IF align_corners THEN "CUBE_CORNERS" ELSE "CUBE")
        mapped == tensor_(cube, expv(cube._tensor, align_corners), cube._domain)
    IN  FlowFields_domain_(mapped, dom)

\* FlowFields.exp: exp_() of a shallow copy
FlowFields_exp(self) == FlowRet(self, FlowFields_exp_(self), "ok")

\* FlowField.batch
FlowField_batch(self) ==
    FlowFields_init([self._tensor EXCEPT !.n = 1], self._grid, self._domain)

\* FlowField.domain_
FlowField_domain_(self, dom) ==
    LET batch == FlowFields_domain_(FlowField_batch(self), dom)
    IN  [self EXCEPT !._tensor = [batch._tensor EXCEPT !.n = 0], !._domain = batch._domain]

\* FlowField.domain(domain): domain_() of a shallow copy
FlowField_domain(self, dom) == FlowRet(self, FlowField_domain_(self, dom), "ok")

\* FlowField.from_image
from_image(image, dom) == FlowField_init(image._tensor, image._grid, dom)

\* FlowField.exp
FlowField_exp(self) ==
    FlowRet(self, from_image(FlowFields_getitem(FlowFields_exp(FlowField_batch(self)).out,
                                                0).out, "None"), "ok")

\* A call on the flow field(s) in hand with outcome r.
FlowStep(r) ==
    \E x \in {r} :
        /\ flows' = [src |-> x.self, out |-> IF x.status = "ok" THEN x.out ELSE NoFlow]
        /\ UNCHANGED <<objs, pstore, cls, conf, fitting>>

IsBatch == flows.src.kind = "FlowFields"

IsField == flows.src.kind = "FlowField"

Mappable == flows.src._tensor.exps < MaxExp

fields_getitem(index) == IsBatch /\ FlowStep(FlowFields_getitem(flows.src, index))

fields_domain_(dom) ==
    /\ IsBatch
    /\ FlowStep(FlowRet(FlowFields_domain_(flows.src, dom), NoFlow, "ok"))

fields_exp_ ==
    /\ IsBatch /\ Mappable
    /\ FlowStep(FlowRet(FlowFields_exp_(flows.src), NoFlow, "ok"))

fields_exp == IsBatch /\ Mappable /\ FlowStep(FlowFields_exp(flows.src))

fields_domain(dom) == IsBatch /\ FlowStep(FlowFields_domain(flows.src, dom))

\* tensor_(data, domain=dom) with a new data tensor of n fields whose vectors are
\* with respect to 'frame'.
fields_tensor_(n, frame, dom) ==
    /\ IsBatch
    /\ FlowStep(FlowRet(tensor_(flows.src, FlowData(n, frame, 0), dom), NoFlow, "ok"))

field_tensor_(frame, dom) ==
    /\ IsField
    /\ FlowStep(FlowRet(tensor_(flows.src, FlowData(0, frame, 0), dom), NoFlow, "ok"))

field_domain_(dom) ==
    /\ IsField
    /\ FlowStep(FlowRet(FlowField_domain_(flows.src, dom), NoFlow, "ok"))

field_domain(dom) == IsField /\ FlowStep(FlowField_domain(flows.src, dom))

field_batch == IsField /\ FlowStep(FlowRet(flows.src, FlowField_batch(flows.src), "ok"))

field_exp == IsField /\ Mappable /\ FlowStep(FlowField_exp(flows.src))

\* The caller goes on with the object the last call returned.
use_result ==
    /\ flows.out # NoFlow
    /\ flows' = [src |-> flows.out, out |-> NoFlow]
    /\ UNCHANGED <<objs, pstore, cls, conf, fitting>>

\* A batch of flow fields or a single flow field, constructed on either kind of
\* grid with every 'domain' argument.
InitFlow ==
    /\ \E n \in 0..MaxBatch, g \in FlowGrids, dom \in DomainArgs :
           LET made == IF n = 0 THEN FlowField_init(FlowData(0, "-", 0), g, dom)
                       ELSE FlowFields_init(FlowData(n, "-", 0), g, dom)
           IN  flows = [src |-> [made EXCEPT !._tensor.frame = made._domain], out |-> NoFlow]
    /\ objs = <<>>
    /\ pstore = <<>>
    /\ cls = "svf"
    /\ conf = NoConf
    /\ fitting = NoFit

NextFlow ==
    \/ \E index \in 0..MaxBatch : fields_getitem(index)
    \/ \E dom \in Domains : fields_domain_(dom)
    \/ \E dom \in Domains : fields_domain(dom)
    \/ \E n \in 1..MaxBatch, frame \in Domains, dom \in DomainArgs : fields_tensor_(n, frame, dom)
    \/ \E frame \in Domains, dom \in DomainArgs : field_tensor_(frame, dom)
    \/ \E dom \in Domains : field_domain_(dom)
    \/ \E dom \in Domains : field_domain(dom)
    \/ fields_exp_
    \/ fields_exp
    \/ field_batch
    \/ field_exp
    \/ use_result

SpecFlow == InitFlow /\ [][NextFlow]_vars

\* ---------------------------------------------------------------- model strings
\* A TransformConfig whose strings are written piece by piece, the result of
\* valid_transform_model on config.transform, and the ModuleDict that
\* ConfigurableTransform.__init__ builds from the two strings.
NotChecked == [max_affine |-> {}, max_nonrigid |-> {}, valid |-> "unknown"]

NotBuilt == Built("none", <<>>)

\* The limits given to valid_transform_model: None or an integer.
Limits == {{}, {0}, {1}, {2}}

ConfigStep(transform, affine_model, checked, built) ==
    /\ conf' = [transform |-> transform, affine_model |-> affine_model,
                checked |-> checked, built |-> built]
    /\ UNCHANGED <<objs, pstore, cls, fitting, flows>>

write_transform(piece) ==
    /\ Len(conf.transform) < MaxPieces /\ conf.affine_model = <<>>
    /\ ConfigStep(Append(conf.transform, piece), conf.affine_model, NotChecked, NotBuilt)

write_affine_model(piece) ==
    /\ Len(conf.affine_model) < MaxLetters
    /\ valid_transform_model(conf.transform, {1}, {1})
    /\ ConfigStep(conf.transform, Append(conf.affine_model, piece), NotChecked, NotBuilt)

check_transform(max_affine, max_nonrigid) ==
    /\ conf.affine_model = <<>>
    /\ ConfigStep(conf.transform, conf.affine_model,
                  [max_affine |-> max_affine, max_nonrigid |-> max_nonrigid,
                   valid |-> IF valid_transform_model(conf.transform, max_affine, max_nonrigid)
                             THEN "true" ELSE "false"],
                  conf.built)

construct_modules ==
    ConfigStep(conf.transform, conf.affine_model, conf.checked,
               build_modules(conf.transform, conf.affine_model))

InitModel ==
    /\ conf = [transform |-> <<>>, affine_model |-> <<>>,
               checked |-> NotChecked, built |-> NotBuilt]
    /\ objs = <<>>
    /\ pstore = <<>>
    /\ cls = "svf"
    /\ fitting = NoFit
    /\ flows = NoFlows

NextModel ==
    \/ \E piece \in TransformPieces : write_transform(piece)
    \/ \E piece \in AffinePieces : write_affine_model(piece)
    \/ \E max_affine \in Limits, max_nonrigid \in Limits :
           check_transform(max_affine, max_nonrigid)
    \/ construct_modules

SpecModel == InitModel /\ [][NextModel]_vars

\* Every instance finds its attribute 'params' in one of the four places.
ParamsFound == \A i \in Alive : GetAttrParams(objs[i], pstore) # Absent

\* ================================================================ claims
\* The instances linked to another instance, and their link targets.
Linked == {i \in Alive : Variant(objs[i], pstore) = "Linked"}

Target(i) == GetAttrParams(objs[i], pstore).id

\* ---------------------------------------------------------------- C1
\* C1 as stated: whenever L is linked to B and B.data() returns a tensor,
\* L.data() returns the same tensor, whether or not L.update() was called since
\* the link was made or since B.data_(t) replaced B's parameters.
C1_LinkedDataFollowsTarget ==
    \A l \in Linked :
        LET mine == do_data_get(objs, pstore, l)
            theirs == do_data_get(objs, pstore, Target(l))
        IN  theirs.status = "ok" => mine.status = "ok" /\ SameData(mine.out, theirs.out)

\* C1 amended: a linked transform L keeps its own buffer p.  B.data_(t) on the
\* link target B never changes L's buffer p, and an update() of L that finds a
\* buffer p and succeeds leaves in it the tensor that B.data() returns.
C1_LinkedBufferRefreshedByUpdate ==
    \A l \in Linked :
        LET b == Target(l)
            u == do_update(cls, objs, pstore, l, "ok")
        IN  /\ \A arg \in DataArgs : do_data_(objs, pstore, b, arg).objs[l].p = objs[l].p
            /\ (u.status = "ok" /\ objs[l].p # Absent) =>
                   LET theirs == do_data_get(u.objs, u.ps, b)
                   IN  theirs.status = "ok" /\ SameData(u.objs[l].p, theirs.out)

\* L was linked to B while B held t1, and B.data_(t2) replaced B's parameters
\* since: L's buffer still holds t1.
C1_Witness ==
    \E l \in Linked :
        /\ Values(objs[l].p) = Tensor("t1", FALSE, "ok")
        /\ Values(do_data_get(objs, pstore, Target(l)).out) = Tensor("t2", FALSE, "ok")
        /\ do_update(cls, objs, pstore, l, "ok").status = "ok"

\* ---------------------------------------------------------------- C2
\* C2: data_(t) on a transform whose parameter source is a predictor or a link
\* raises ReadOnlyParameters for every argument t, valid or not, and leaves the
\* transform (params, p, u, v, conditioning arguments) and the rest of the heap
\* as they were.
C2_DataReadOnly ==
    \A i \in Alive :
        Variant(objs[i], pstore) \in {"Predicted", "Linked"} =>
            \A arg \in DataArgs :
                LET r == do_data_(objs, pstore, i, arg)
                IN  /\ r.status = "ReadOnlyParameters"
                    /\ r.objs = objs
                    /\ r.ps = pstore

\* A linked transform with cached u and v and conditioning arguments.
C2_Witness ==
    \E i \in Linked :
        /\ objs[i].u # NoField /\ objs[i].v # NoField /\ objs[i].p # Absent
        /\ objs[i]._args = "x1" /\ objs[i]._kwargs = "k1"
        /\ do_data_(objs, pstore, i, NonTensor).status = "ReadOnlyParameters"

\* ---------------------------------------------------------------- C3
\* The grid and the cached vector fields of an instance.
Cached(o) == <<o._grid, o.u, o.v>>

\* C3: grid_(g), data_(t) and clear_buffers() applied to one instance leave the
\* grid and the cached u and v of every other instance as they were, whether the
\* other instance is its shallow copy or the transform it was copied from.
C3_CopyIsolation ==
    \A i \in Alive : \A k \in Alive \ {i} :
        /\ \A g \in GridArgs :
               Cached(do_grid_(objs, pstore, i, g).objs[k]) = Cached(objs[k])
        /\ \A arg \in DataArgs :
               Cached(do_data_(objs, pstore, i, arg).objs[k]) = Cached(objs[k])
        /\ Cached(Put(objs, i, clear_buffers_of(objs[i]))[k]) = Cached(objs[k])

\* A transform with cached u and v on grid g1 and a shallow copy of it whose
\* grid was replaced and whose buffers were cleared.
C3_Witness ==
    \E i \in Alive : \E k \in Alive \ {i} :
        /\ objs[i].pc = objs[k].pc
        /\ objs[i].u # NoField /\ objs[i].v # NoField /\ objs[i]._grid = G1
        /\ objs[k].u = NoField /\ objs[k].v = NoField /\ objs[k]._grid = G2

\* ---------------------------------------------------------------- C4
\* The tensors a call may be given as valid parameters.
ValidArgs == {arg \in DataArgs : CheckTensor(arg) = "ok"}

\* What data() without argument returns or raises.
DataOf(os, ps, i) == LET d == do_data_get(os, ps, i) IN <<d.status, d.out>>

\* C4 as stated: data(t) with a valid tensor t returns a new transform whose
\* data() is t, and the receiver, whatever its variant, has the same variant and
\* the same data() outcome after the call as before it.
C4_DataCopyLeavesReceiver ==
    \A i \in Alive : \A arg \in ValidArgs :
        HasFree =>
            LET r == do_data_copy(objs, pstore, i, arg, FreeSlot)
            IN  /\ r.status = "ok"
                /\ r.new = FreeSlot
                /\ DataOf(r.objs, r.ps, r.new) = <<"ok", arg>>
                /\ Variant(r.objs[i], r.ps) = Variant(objs[i], pstore)
                /\ DataOf(r.objs, r.ps, i) = DataOf(objs, pstore, i)

\* ---------------------------------------------------------------- C5
\* C5, the mutators: when grid_(g) with g other than the current grid, data_(t)
\* or condition_(...) returns, the buffers u and v of the transform are absent.
C5_MutatorsClear ==
    \A i \in Alive :
        /\ \A g \in GridArgs \ {objs[i]._grid} :
               LET r == do_grid_(objs, pstore, i, g)
               IN  r.status = "ok" => r.objs[i].u = NoField /\ r.objs[i].v = NoField
        /\ \A arg \in DataArgs :
               LET r == do_data_(objs, pstore, i, arg)
               IN  r.status = "ok" => r.objs[i].u = NoField /\ r.objs[i].v = NoField
        /\ \A a \in CondArgs, kw \in CondKwargs :
               LET r == do_condition_(objs, pstore, i, a, kw)
               IN  r.status = "ok" /\ r.objs[i].u = NoField /\ r.objs[i].v = NoField

\* C5, until the next update(): a step in which u or v of a transform goes from
\* absent to present is a successful update() of that transform.
C5_OnlyUpdateFills ==
    \A i \in Slots :
        (/\ objs[i].alive
         /\ \/ objs[i].u = NoField /\ objs'[i].u # NoField
            \/ objs[i].v = NoField /\ objs'[i].v # NoField)
        => \E oc \in PredOutcomes :
               LET r == do_update(cls, objs, pstore, i, oc)
                   h == Numbered(r.objs, r.ps)
               IN  r.status = "ok" /\ objs' = h.objs /\ pstore' = h.ps

\* C5: every mutator leaves u and v absent, and they stay absent until the next
\* update().
C5_MutatorsForceDirty == [] C5_MutatorsClear /\ [][C5_OnlyUpdateFills]_vars

\* A transform with replaceable parameters and cached u and v, which data_,
\* grid_ and condition_ clear.
C5_Witness ==
    \E i \in Alive :
        /\ objs[i].u # NoField /\ objs[i].v # NoField
        /\ objs[i]._grid = G1 /\ objs[i]._args = "x1"
        /\ LET r == do_data_(objs, pstore, i, Tensor("t2", FALSE, "ok"))
           IN  r.status = "ok" /\ r.objs[i].u = NoField
        /\ do_grid_(objs, pstore, i, G2).objs[i].u = NoField

\* ---------------------------------------------------------------- C6
\* The grids a vector field is sampled on (NoGrid: the grid of the transform).
SampleGrids == {NoGrid, G1, G2}

\* The outcomes of tensor(), disp(g) and flow(g) on the instance in slot i.
Evaluations(i, oc) ==
    {do_tensor(cls, objs, pstore, i, oc)}
        \cup {do_disp(cls, objs, pstore, i, g, oc) : g \in SampleGrids}
        \cup {do_flow(cls, objs, pstore, i, g, oc) : g \in SampleGrids}

\* C6: tensor(), disp() and flow() invoke update() exactly once when no u is
\* cached, and leave the heap as that update() leaves it; when u is cached they
\* invoke no update(), change nothing, and what they return is the cached u.
C6_UpdateOnlyWhenDirty ==
    \A i \in Alive : \A oc \in PredOutcomes : \A r \in Evaluations(i, oc) :
        IF objs[i].u = NoField
        THEN LET u == do_update(cls, objs, pstore, i, oc)
             IN  /\ r.upd = 1
                 /\ r.objs = u.objs /\ r.ps = u.ps /\ r.calls = u.calls
                 /\ (r.status = "ok" => r.fld.src = u.objs[i].u.src)
        ELSE /\ r.upd = 0
             /\ r.objs = objs /\ r.ps = pstore /\ r.calls = <<>>
             /\ (r.status = "ok" => r.fld.src = objs[i].u.src)

\* A transform whose u was cleared by condition_: its tensor() invokes update()
\* and succeeds, after which a second tensor() invokes no update() and returns
\* the same field.
C6_Witness ==
    \E i \in Alive :
        /\ objs[i].u = NoField /\ objs[i]._args = "x1"
        /\ LET r == do_tensor(cls, objs, pstore, i, "ok")
               q == do_tensor(cls, r.objs, r.ps, i, "ok")
           IN  /\ r.status = "ok" /\ r.upd = 1
               /\ q.status = "ok" /\ q.upd = 0 /\ q.fld = r.fld

\* ---------------------------------------------------------------- C7
\* Whether a field is a well-formed u: a registered buffer of rank ndim + 2 with
\* ndim channels.
WellFormed(u) == u # NoField /\ u.shape = "ok"

\* C7 as stated: tensor() returns a well-formed u or raises AssertionError.
C7_TensorOrAssertion ==
    \A i \in Alive : \A oc \in PredOutcomes :
        LET r == do_tensor(cls, objs, pstore, i, oc)
        IN  IF r.status = "ok" THEN WellFormed(r.fld) ELSE r.status = "AssertionError"

\* C7 amended: tensor() returns the well-formed buffer u of the transform, or it
\* raises: AssertionError when u is missing, unregistered or malformed, or else
\* the exception of the update() it invoked.  For a class whose update() never
\* registers u, tensor() never returns: it raises AssertionError whenever its
\* update() succeeds.
C7_TensorWellFormedOrRaises ==
    \A i \in Alive : \A oc \in PredOutcomes :
        LET r == do_tensor(cls, objs, pstore, i, oc)
            u == do_update(cls, objs, pstore, i, oc)
        IN  /\ r.status = "ok" => WellFormed(r.fld) /\ r.fld = r.objs[i].u
            /\ r.status \notin {"ok", "AssertionError"} =>
                   objs[i].u = NoField /\ r.status = u.status
            /\ cls = "base" => r.status # "ok"
            /\ (cls = "base" /\ u.status = "ok") => r.status = "AssertionError"

\* A transform of a class that registers a u with the wrong number of channels,
\* with that u cached: tensor() raises AssertionError.
C7_Witness ==
    \E i \in Alive :
        /\ cls = "badchan" /\ objs[i].u # NoField
        /\ do_tensor(cls, objs, pstore, i, "ok").status = "AssertionError"

\* ---------------------------------------------------------------- C8
\* The instances without parameters.
Unset == {i \in Alive : Variant(objs[i], pstore) = "Unset"}

\* C8 as stated: update() on a transform without parameters raises
\* AssertionError (parameters required) and registers no buffer.
C8_UpdateUnsetFails ==
    \A i \in Unset : \A oc \in PredOutcomes :
        LET r == do_update(cls, objs, pstore, i, oc)
        IN  r.status = "AssertionError" /\ r.objs = objs /\ r.ps = pstore

\* C8 amended: update() on a transform without parameters registers no buffer,
\* invokes no predictor and changes nothing.  It raises AssertionError when the
\* transform has a buffer p, or when the update() of its class reads data(); it
\* returns normally when there is no buffer p and the class does not override
\* NonRigidTransform.update.
C8_UpdateUnsetRegistersNothing ==
    \A i \in Unset : \A oc \in PredOutcomes :
        LET r == do_update(cls, objs, pstore, i, oc)
        IN  /\ r.objs = objs /\ r.ps = pstore /\ r.calls = <<>>
            /\ r.status = IF objs[i].p = Absent /\ cls = "base"
                          THEN "ok" ELSE "AssertionError"

\* A transform of the class that does not override update(), unlinked after it
\* had been linked: its update() returns normally.
C8_Witness ==
    \E i \in Unset :
        /\ cls = "base" /\ objs[i].mparams = NoneV /\ objs[i].p = Absent
        /\ do_update(cls, objs, pstore, i, "ok").status = "ok"

\* ---------------------------------------------------------------- C9
\* Whether the instance in slot i of heap os is without parameters: data()
\* raises AssertionError (parameters required) and no buffer p is registered.
IsUnset(os, ps, i) ==
    /\ Variant(os[i], ps) = "Unset"
    /\ do_data_get(os, ps, i).status = "AssertionError"
    /\ os[i].p = Absent

\* C9 as stated: unlink_() leaves the transform, whatever its variant, without
\* parameters; unlink() returns a transform without parameters and leaves the
\* variant and the buffer p of the receiver as they were.
C9_UnlinkEndsUnset ==
    \A i \in Alive :
        /\ LET r == do_unlink_(objs, pstore, i)
           IN  r.status = "ok" /\ IsUnset(r.objs, r.ps, i)
        /\ HasFree =>
               LET r == do_unlink_(WithCopy(i, FreeSlot), pstore, FreeSlot)
               IN  /\ r.status = "ok" /\ IsUnset(r.objs, r.ps, FreeSlot)
                   /\ Variant(r.objs[i], r.ps) = Variant(objs[i], pstore)
                   /\ r.objs[i].p = objs[i].p

\* ---------------------------------------------------------------- C10
\* The instances whose parameters come from a predictor.
Predicted == {i \in Alive : Variant(objs[i], pstore) = "Predicted"}

\* C10 as stated: update() on a transform with a predictor invokes the predictor
\* exactly once, with the stored conditioning arguments; a valid prediction
\* becomes buffer p; an invalid one makes update() raise TypeError (not a tensor)
\* or ValueError (wrong rank or shape) and leaves buffer p as it was.
C10_UpdatePredictsOnce ==
    \A i \in Predicted : \A oc \in PredOutcomes :
        LET r == do_update(cls, objs, pstore, i, oc)
            a == objs[i]._args
            kw == objs[i]._kwargs
        IN  /\ r.calls = <<CondV(a, kw)>>
            /\ IF oc = "ok"
               THEN r.status = "ok" /\ r.objs[i].p = PredT(a, kw, "ok")
               ELSE /\ r.status = IF oc = "nontensor" THEN "TypeError" ELSE "ValueError"
                    /\ r.objs[i].p = objs[i].p

\* ---------------------------------------------------------------- C11
\* The transform at the end of the link chain of the instance in slot i of heap
\* os, following at most n links.
RECURSIVE ChainEnd(_, _, _, _)
ChainEnd(os, ps, i, n) ==
    IF n = 0 \/ Variant(os[i], ps) # "Linked" THEN i
    ELSE ChainEnd(os, ps, GetAttrParams(os[i], ps).id, n - 1)

\* C11 as stated: update() on a linked transform invokes no predictor, and when
\* it returns, data() of the transform is what data() of the transform at the
\* end of its link chain returns.
C11_UpdateResolvesChain ==
    \A l \in Linked : \A oc \in PredOutcomes :
        LET u == do_update(cls, objs, pstore, l, oc)
            e == ChainEnd(u.objs, u.ps, l, MaxObjs)
        IN  /\ u.calls = <<>>
            /\ (u.status = "ok" /\ Variant(u.objs[e], u.ps) # "Linked") =>
                   DataOf(u.objs, u.ps, l) = DataOf(u.objs, u.ps, e)

\* C11 amended: update() on a linked transform invokes no predictor and
\* resolves one link only.  When the transform has a buffer p and update()
\* returns, the buffer holds what data() of its direct target returns: for a
\* target that is itself linked that is the target's buffer p, up to date or not.
C11_UpdateResolvesOneLink ==
    \A l \in Linked : \A oc \in PredOutcomes :
        LET b == Target(l)
            u == do_update(cls, objs, pstore, l, oc)
        IN  /\ u.calls = <<>>
            /\ (u.status = "ok" /\ objs[l].p # Absent) =>
                   /\ <<"ok", u.objs[l].p>> = DataOf(objs, pstore, b)
                   /\ (b # l /\ Variant(objs[b], pstore) = "Linked") =>
                          u.objs[l].p = objs[b].p

\* A chain L -> B -> C in which C holds t2 and the buffer of B still holds t1:
\* update() of L succeeds and leaves t1 in the buffer of L.
C11_Witness ==
    \E l \in Linked :
        LET b == Target(l)
            c == Target(b)
        IN  /\ b \in Linked /\ c \notin Linked /\ c # l
            /\ Values(do_data_get(objs, pstore, c).out) = Tensor("t2", FALSE, "ok")
            /\ Values(objs[b].p) = Tensor("t1", FALSE, "ok")
            /\ objs[l].p # Absent
            /\ Values(do_update(cls, objs, pstore, l, "ok").objs[l].p) = Tensor("t1", FALSE, "ok")

\* ---------------------------------------------------------------- C12
\* C12 as stated: data(t) on any transform, and data_(t) on a transform whose
\* parameters come neither from a predictor nor from a link, succeed exactly when
\* t is a tensor of the required rank and shape; otherwise they raise TypeError
\* or ValueError, produce no copy and leave the heap as it was.
C12_AcceptsExactlyValid ==
    \A i \in Alive : \A arg \in DataArgs :
        /\ HasFree =>
               LET r == do_data_copy(objs, pstore, i, arg, FreeSlot)
               IN  /\ r.status = "ok" <=> arg \in ValidArgs
                   /\ r.status # "ok" =>
                          /\ r.status \in {"TypeError", "ValueError"}
                          /\ r.new = 0 /\ r.objs = objs /\ r.ps = pstore
        /\ Variant(objs[i], pstore) \notin {"Predicted", "Linked"} =>
               LET r == do_data_(objs, pstore, i, arg)
               IN  /\ r.status = "ok" <=> arg \in ValidArgs
                   /\ r.status # "ok" =>
                          /\ r.status \in {"TypeError", "ValueError"}
                          /\ r.objs = objs /\ r.ps = pstore

\* ---------------------------------------------------------------- C13
\* The parameters of the sub-transforms of instance c on the heap (os, ps).
SubParams(os, ps, c) ==
    [name \in Names(conf[c]._transforms) |-> GetAttrParams(os[Sub(c, name)], ps)]

\* C13: when update() of a ConfigurableTransform fails, whatever the predictor
\* returned, the call has replaced the parameters of no sub-transform.
C13_UpdateFailsWhole ==
    \A c \in Constructed, pred \in Predictions :
        LET r == Configurable_update(conf, objs, pstore, c, pred)
        IN  r.status # "ok" => SubParams(r.objs, r.ps, c) = SubParams(objs, pstore, c)

\* ---------------------------------------------------------------- C14
\* The instances with a predictor callable and flip_grid_coords=false.
Predicting ==
    {c \in Constructed : Callable(conf[c].params) /\ ~conf[c].config.flip}

\* The sub-transforms of c that the claim names, in the order of _data().
NamedSubs(c) ==
    SelectSeq(SubNames, LAMBDA name : name \in Names(conf[c]._transforms) /\ name # "shearing")

\* C14 as stated: a successful update() calls data_() on each present
\* sub-transform named affine, translation, rotation, scaling, quaternion or
\* nonrigid with exactly the entry the predicted mapping has under that name.
C14_RoutesEntryOfName ==
    \A c \in Predicting, pred \in Predictions :
        LET r == Configurable_update(conf, objs, pstore, c, pred)
        IN  r.status = "ok" =>
                r.sets = [k \in 1..Len(NamedSubs(c)) |->
                             <<NamedSubs(c)[k], pred.at[NamedSubs(c)[k]]>>]

\* The entry the claim, amended, routes to the sub-transform 'name'.
EntryFor(name, at) ==
    IF at[name] # Absent THEN at[name]
    ELSE IF name = "translation" THEN at["offset"]
    ELSE IF name = "rotation" THEN at["angles"]
    ELSE IF name = "scaling" THEN at["scales"]
    ELSE IF name = "nonrigid" THEN at["vfield"]
    ELSE Absent

\* C14, amended: a successful update() calls data_() once on each present
\* sub-transform named affine, translation, rotation, scaling, quaternion or
\* nonrigid, with the mapping's entry under that name or, when the mapping has
\* none, its entry under offset, angles, scales or vfield; and update() succeeds
\* whenever each of these entries is a tensor of the required shape, whatever
\* else the mapping holds.
C14_RoutesEntryOrAlias ==
    \A c \in Predicting, pred \in Predictions :
        LET r == Configurable_update(conf, objs, pstore, c, pred)
            named == NamedSubs(c)
            wanted == [k \in 1..Len(named) |-> <<named[k], EntryFor(named[k], pred.at)>>]
        IN  /\ r.status = "ok" => r.sets = wanted
            /\ (pred.mapping /\ \A k \in 1..Len(named) : CheckTensor(wanted[k][2]) = "ok")
                    => r.status = "ok"

\* An update() has routed the entry under "offset" to the translation.
C14_Witness ==
    \E c \in Predicting :
        /\ "translation" \in Names(conf[c]._transforms)
        /\ GetAttrParams(objs[Sub(c, "translation")], pstore) = EntryOf("offset", "ok")

\* ---------------------------------------------------------------- C15
\* C15: constructing a second ConfigurableTransform of the model of a
\* constructed one, with a Mapping that has an entry for every sub-transform,
\* succeeds, and then data() of each sub-transform is the mapping's entry for
\* its name.
C15_MappingConstructs ==
    \A c \in Constructed :
        LET r == ConfigurableTransform_init(1, "Mapping", FullPred, conf[c].config)
        IN  /\ r.status = "ok"
            /\ \A name \in conf[c].config.present :
                   LET d == do_data_get(r.objs, r.ps, Sub(1, name))
                   IN  d.status = "ok" /\ d.out = FullPred[name]

\* ---------------------------------------------------------------- C16
\* The tensor t is not a prediction, or it is a prediction made with the
\* conditioning arguments the instance in slot i has now.
Fresh(t, i) ==
    (IsTensor(t) /\ t.val = "pred") => (t.a = objs[i]._args /\ t.kw = objs[i]._kwargs)

\* C16 as stated: whatever data(), tensor() or disp() of a Predicted transform
\* returns is not derived from a prediction that was made with conditioning
\* arguments other than the ones set by the latest condition_().
C16_NothingStaleReturned ==
    \A i \in Predicted :
        LET d == do_data_get(objs, pstore, i)
        IN  /\ d.status = "ok" => Fresh(d.out, i)
            /\ \A oc \in PredOutcomes : \A r \in Evaluations(i, oc) :
                   r.status = "ok" => Fresh(r.fld.src, i)

\* C16, amended: whatever tensor(), disp() or flow() of a Predicted transform
\* returns is derived from a prediction made with the conditioning arguments
\* set by the latest condition_(), and data() returns buffer p as the latest
\* update() left it, whatever the conditioning arguments are now.
C16_FieldsNeverStale ==
    \A i \in Predicted :
        LET d == do_data_get(objs, pstore, i)
        IN  /\ d.status = "ok" => d.out = objs[i].p
            /\ objs[i].u # NoField => Fresh(objs[i].u.src, i)
            /\ \A oc \in PredOutcomes : \A r \in Evaluations(i, oc) :
                   r.status = "ok" =>
                       /\ Fresh(r.fld.src, i)
                       /\ r.fld.src = PredT(objs[i]._args, objs[i]._kwargs, "ok")

\* condition_() changed the conditioning arguments of a Predicted transform
\* after an update() had stored a prediction in buffer p.
C16_Witness ==
    \E i \in Predicted :
        /\ Values(objs[i].p) = PredT("none", "none", "ok")
        /\ objs[i]._args = "x1"
        /\ objs[i].u = NoField
        /\ do_tensor(cls, objs, pstore, i, "ok").status = "ok"

\* ---------------------------------------------------------------- C17
\* C17: condition(*args, **kwargs) with a positional or a keyword argument
\* returns a new transform whose condition() returns exactly (args, kwargs) and
\* leaves the stored arguments of the receiver as they were; condition() without
\* arguments returns the stored (args, kwargs) and makes no copy.
C17_ConditionedCopy ==
    \A i \in Alive : \A a \in CondArgs, kw \in CondKwargs :
        LET n == IF HasFree THEN FreeSlot ELSE i
            r == do_condition(objs, pstore, i, a, kw, n)
            stored == CondV(objs[i]._args, objs[i]._kwargs)
        IN  IF a = "none" /\ kw = "none"
            THEN r.status = "ok" /\ r.new = 0 /\ r.out = stored /\ r.objs = objs
            ELSE HasFree =>
                    /\ r.status = "ok" /\ r.new = n
                    /\ do_condition(r.objs, r.ps, n, "none", "none", n).out = CondV(a, kw)
                    /\ do_condition(r.objs, r.ps, i, "none", "none", i).out = stored

\* ---------------------------------------------------------------- C18
\* C18: inverse(link) returns a new transform with the negated invert flag,
\* Linked to the receiver when link is true; the receiver keeps its invert flag
\* and its parameter source; the inverse of the inverse has the invert flag of
\* the receiver.
C18_InverseTogglesAndLinks ==
    \A i \in Alive : \A lnk \in BOOLEAN :
        HasFree =>
            LET n == FreeSlot
                r == do_inverse(objs, pstore, i, lnk, FALSE, n)
                back == do_inverse(r.objs, r.ps, n, FALSE, FALSE, n)
            IN  /\ r.status = "ok" /\ r.new = n /\ n # i
                /\ r.objs[n].invert = ~objs[i].invert
                /\ lnk => GetAttrParams(r.objs[n], r.ps) = ObjV(i)
                /\ r.objs[i].invert = objs[i].invert
                /\ GetAttrParams(r.objs[i], r.ps) = GetAttrParams(objs[i], pstore)
                /\ back.status = "ok" /\ back.objs[n].invert = objs[i].invert

\* ---------------------------------------------------------------- C19
\* C19: the transform that inverse(link, update_buffers=True) returns holds no
\* cached u or v computed under the opposite invert flag, and its buffers are
\* up to date: an update() of it would leave it as it is.
C19_InverseBuffersUpdated ==
    \A i \in Alive : \A lnk \in BOOLEAN :
        HasFree =>
            LET n == FreeSlot
                r == do_inverse(objs, pstore, i, lnk, TRUE, n)
                inv == r.objs[n]
                upd == do_update(cls, r.objs, r.ps, n, "ok")
            IN  r.status = "ok" =>
                    /\ inv.u # NoField => inv.u.inv = inv.invert
                    /\ upd.status = "ok" /\ upd.objs[n] = inv

\* ---------------------------------------------------------------- C20
\* C20: inverse(link=True) of a ConfigurableTransform returns a transform whose
\* params is the original; update() of that inverse, whatever the predictor
\* would return, invokes no predictor and calls data_() on no sub-transform;
\* inverse(link=False) returns a transform with the params of the original.
C20_InverseRefersToOriginal ==
    \A c \in Constructed : \A n \in ConfIds :
        ~conf[n].alive =>
            LET linked == Configurable_inverse(conf, objs, pstore, c, TRUE, FALSE, n)
                plain == Configurable_inverse(conf, objs, pstore, c, FALSE, FALSE, n)
            IN  /\ linked.status = "ok" /\ linked.new = n
                /\ linked.conf[n].params = ConfV(c)
                /\ \A pred \in Predictions :
                       LET u == Configurable_update(linked.conf, linked.objs, linked.ps, n, pred)
                       IN  u.calls = <<>> /\ u.sets = <<>>
                /\ plain.status = "ok" /\ plain.new = n
                /\ plain.conf[n].params = conf[c].params

\* ---------------------------------------------------------------- C21
\* C21: grid_(g) and grid(g) with a grid of another number of dimensions raise
\* ValueError and leave every instance, its grid and its cached buffers as they
\* were; every instance has the number of dimensions of the grid it was
\* constructed with.
C21_GridKeepsNdim ==
    /\ \A i \in Alive : objs[i]._grid.ndim = G1.ndim
    /\ \A i \in Alive : \A g \in GridArgs :
           g.ndim # objs[i]._grid.ndim =>
               LET inplace == do_grid_(objs, pstore, i, g)
                   n == IF HasFree THEN FreeSlot ELSE i
                   copied == OnCopy(do_grid_(WithCopy(i, n), pstore, n, g))
               IN  /\ inplace.status = "ValueError"
                   /\ inplace.objs = objs /\ inplace.ps = pstore
                   /\ HasFree => /\ copied.status = "ValueError" /\ copied.new = 0
                                 /\ copied.objs = objs /\ copied.ps = pstore

\* A transform was moved to another grid of its number of dimensions and has
\* cached a vector field there.
C21_Witness ==
    \E i \in Alive :
        /\ objs[i]._grid = G2 /\ objs[i].u # NoField
        /\ do_grid_(objs, pstore, i, G3).status = "ValueError"

\* ---------------------------------------------------------------- C22
\* The positions just before each ' o '-separated token of str: 0 and the
\* positions of the separators.
TokenStarts(str) == {0} \cup {k \in 1..Len(str) : str[k] = Separator}

\* The token of str that starts after position a: the pieces up to the next
\* separator or the end.
TokenAt(str, a) ==
    LET ends == {b \in (a + 1)..(Len(str) + 1) : b = Len(str) + 1 \/ str[b] = Separator}
        b == CHOOSE e \in ends : \A f \in ends : e <= f
    IN  SubSeq(str, a + 1, b - 1)

\* The number of tokens of str that are one of the names.
CountOf(str, names) ==
    Cardinality({a \in TokenStarts(str) :
                    Len(TokenAt(str, a)) = 1 /\ TokenAt(str, a)[1] \in names})

\* C22: valid_transform_model(model, max_affine, max_nonrigid) is true exactly
\* when every ' o '-separated token of model is 'Affine' or one of DDF, FFD,
\* SVF, SVFFD, there are at most max_affine tokens 'Affine' when that limit is
\* given, and at most max_nonrigid non-rigid tokens when that limit is given;
\* 'Affine o Affine' is rejected under max_affine=1, 'Affine o SVF' is accepted.
C22_ValidModel ==
    /\ \A max_affine \in Limits, max_nonrigid \in Limits :
           valid_transform_model(conf.transform, max_affine, max_nonrigid)
           <=> /\ CountOf(conf.transform, {"Affine", "DDF", "FFD", "SVF", "SVFFD"})
                      = Cardinality(TokenStarts(conf.transform))
               /\ \A m \in max_affine : CountOf(conf.transform, {"Affine"}) <= m
               /\ \A m \in max_nonrigid :
                      CountOf(conf.transform, {"DDF", "FFD", "SVF", "SVFFD"}) <= m
    /\ conf.checked.valid # "unknown" =>
           (conf.checked.valid = "true"
            <=> valid_transform_model(conf.transform, conf.checked.max_affine,
                                      conf.checked.max_nonrigid))
    /\ ~valid_transform_model(<<"Affine", Separator, "Affine">>, {1}, {})
    /\ valid_transform_model(<<"Affine", Separator, "SVF">>, {1}, {1})

\* 'Affine o Affine' was checked with max_affine=1 and rejected.
C22_Witness ==
    /\ conf.transform = <<"Affine", Separator, "Affine">>
    /\ conf.checked.max_affine = {1}
    /\ conf.checked.valid = "false"

\* ---------------------------------------------------------------- C23
\* The letters of config.affine_model, ' o ' separators ignored, in upper case.
Letters == [k \in 1..Len(without_separators(conf.affine_model)) |->
               IF without_separators(conf.affine_model)[k] = "t" THEN "T"
               ELSE without_separators(conf.affine_model)[k]]

\* The positions of the letters outside {A, K, T, R, S, Q}.
Outside == {k \in 1..Len(Letters) : Letters[k] \notin {"A", "K", "T", "R", "S", "Q"}}

\* The positions of the letters that occur again further right.
Repeated == {k \in 1..Len(Letters) : \E j \in (k + 1)..Len(Letters) : Letters[j] = Letters[k]}

\* C23 as stated: for every valid config.transform, an affine_model with a
\* repeated letter makes the construction fail with NotImplementedError, and
\* one with a letter outside {A, K, T, R, S, Q} makes it fail with ValueError.
C23_BadAffineModelFails ==
    valid_transform_model(conf.transform, {1}, {1}) =>
        LET b == build_modules(conf.transform, conf.affine_model)
        IN  /\ Repeated # {} => b.status = "NotImplementedError"
            /\ Outside # {} => b.status = "ValueError"

\* C23, amended: for every valid config.transform that has the token 'Affine',
\* the construction fails when affine_model has a repeated letter or a letter
\* outside {A, K, T, R, S, Q}, with the exception of whichever is met first
\* reading the letters from right to left, and it builds no sub-transform map;
\* when config.transform has no token 'Affine', affine_model is not read.
C23_BadAffineModelFailsIfAffine ==
    valid_transform_model(conf.transform, {1}, {1}) =>
        LET b == build_modules(conf.transform, conf.affine_model)
            faulty == Outside \cup Repeated
            first == CHOOSE k \in faulty : \A j \in faulty : j <= k
        IN  /\ IF CountOf(conf.transform, {"Affine"}) = 0 \/ faulty = {}
               THEN b.status = "ok"
               ELSE /\ b.status = IF first \in Outside THEN "ValueError"
                                  ELSE "NotImplementedError"
                    /\ b.modules = <<>>
            /\ conf.built # NotBuilt => conf.built = b

\* A construction failed on a repeated letter written in two cases, although the
\* affine model also has a letter outside {A, K, T, R, S, Q}.
C23_Witness ==
    /\ conf.transform = <<"Affine", Separator, "SVF">>
    /\ conf.affine_model = <<"x", "t", "T">>
    /\ conf.built.status = "NotImplementedError"

\* ---------------------------------------------------------------- C24
\* The name of the sub-transform of an elementary letter.
NameOfLetter(letter) ==
    CHOOSE name \in {"affine", "shearing", "translation", "rotation", "scaling", "quaternion"} :
        \/ letter = "A" /\ name = "affine"
        \/ letter = "K" /\ name = "shearing"
        \/ letter = "T" /\ name = "translation"
        \/ letter = "R" /\ name = "rotation"
        \/ letter = "S" /\ name = "scaling"
        \/ letter = "Q" /\ name = "quaternion"

\* The affine entries of an ordered sub-transform map, in its order.
AffineEntries(modules) == SelectSeq(modules, LAMBDA name : name # "nonrigid")

\* C24: for letters l1 ... ln of affine_model, the ordered map of sub-transforms
\* that a successful construction builds lists name(ln), ..., name(l1) in that
\* order; 'TRS' gives scaling, rotation, translation.
C24_ReverseLetterOrder ==
    /\ \A b \in {build_modules(conf.transform, conf.affine_model)} :
           (b.status = "ok" /\ CountOf(conf.transform, {"Affine"}) > 0) =>
               AffineEntries(b.modules) =
                   [k \in 1..Len(Letters) |-> NameOfLetter(Letters[Len(Letters) + 1 - k])]
    /\ (conf.built.status = "ok" /\ Letters = <<"T", "R", "S">>
            /\ CountOf(conf.transform, {"Affine"}) > 0) =>
           AffineEntries(conf.built.modules) = <<"scaling", "rotation", "translation">>

\* The map was built for 'Affine o SVF' with affine model 'TRS'.
C24_Witness ==
    /\ conf.transform = <<"Affine", Separator, "SVF">>
    /\ conf.affine_model = <<"T", "R", "S">>
    /\ AffineEntries(conf.built.modules) = <<"scaling", "rotation", "translation">>

\* ---------------------------------------------------------------- C25
\* The last ' o '-separated token of str.
LastToken(str) ==
    TokenAt(str, CHOOSE a \in TokenStarts(str) : \A c \in TokenStarts(str) : c <= a)

\* C25: when config.transform has an affine and a non-rigid token, a successful
\* construction puts 'nonrigid' after all affine entries of the ordered map if
\* the last token of config.transform is 'Affine' and before all of them
\* otherwise, and the affine entries are in the order they have without a
\* non-rigid token.
C25_NonrigidPlacedByLastToken ==
    \A b \in {build_modules(conf.transform, conf.affine_model)} :
        (/\ b.status = "ok"
         /\ CountOf(conf.transform, {"Affine"}) > 0
         /\ CountOf(conf.transform, {"DDF", "FFD", "SVF", "SVFFD"}) > 0) =>
            LET affine == build_modules(<<"Affine">>, conf.affine_model).modules
            IN  /\ AffineEntries(b.modules) = affine
                /\ IF LastToken(conf.transform) = <<"Affine">>
                   THEN b.modules = affine \o <<"nonrigid">>
                   ELSE b.modules = <<"nonrigid">> \o affine
                /\ conf.built.status = "ok" => conf.built = b

\* The maps built for 'SVF o Affine' and for 'Affine o FFD' with two letters.
C25_Witness ==
    /\ conf.affine_model = <<"T", "R">>
    /\ \/ /\ conf.transform = <<"SVF", Separator, "Affine">>
          /\ conf.built.modules = <<"rotation", "translation", "nonrigid">>
       \/ /\ conf.transform = <<"Affine", Separator, "FFD">>
          /\ conf.built.modules = <<"nonrigid", "rotation", "translation">>

\* ---------------------------------------------------------------- C26
\* fit() has finished: it returned or raised.
Finished == fitting.pc \in {"returned", "raised"}

\* C26: a call of fit() terminates; it takes at most 'steps' gradient steps
\* (1000 when the keyword is absent); it stops right after the first step whose
\* error is at most epsilon; when the limit is reached without such a step it
\* returns without an exception; and on a transform without an optimizable
\* parameter it raises RuntimeError before any step.
C26_FitTerminates ==
    /\ [](fitting.pc # "idle" =>
            /\ fitting.step <= fitting.steps \/ fitting.step = 0
            /\ fitting.steps <= MaxSteps \/ fitting.steps = 1000
            /\ fitting.hits <= 1
            /\ fitting.hits = 1 => fitting.pc = "returned"
            /\ (fitting.step = fitting.steps /\ fitting.hits = 0
                    /\ parameters(objs, pstore, 1, MaxObjs) # {}) =>
                   fitting.pc = "returned"
            /\ parameters(objs, pstore, 1, MaxObjs) = {} =>
                   /\ fitting.pc = "raised"
                   /\ fitting.error = "RuntimeError"
                   /\ fitting.step = 0)
    /\ (fitting.pc = "loop") ~> Finished

\* fit() stopped after its first step, which converged, with steps left; or it
\* ran into the limit of steps without a step that converged.
C26_Witness ==
    /\ fitting.pc = "returned"
    /\ \/ fitting.hits = 1 /\ fitting.step = 1 /\ fitting.steps = MaxSteps
       \/ fitting.hits = 0 /\ fitting.step = fitting.steps /\ fitting.steps = MaxSteps

\* ---------------------------------------------------------------- C27
\* C27: during fit(), the displacement field that the loss of the next gradient
\* step is computed from is derived from the parameters as the optimizer left
\* them: a u cached before the parameters were stepped is not evaluated again.
C27_LossFromSteppedParameters ==
    fitting.pc = "loop" =>
        \A r \in {do_disp(cls, objs, pstore, 1, NoGrid, "ok")} :
            r.status = "ok" =>
                /\ SameData(r.fld.src, GetAttrParams(objs[1], pstore))
                /\ r.upd = 1

\* ---------------------------------------------------------------- C28
Variants == {"Unset", "Fixed", "Optimizable", "Predicted", "Linked"}

\* C28: every constructed transform is in exactly one parameter variant, and it
\* has buffer p if and only if the variant is Predicted or Linked.
C28_BufferIffPredictedOrLinked ==
    \A i \in Alive :
        /\ Variant(objs[i], pstore) \in Variants
        /\ objs[i].p # Absent <=> Variant(objs[i], pstore) \in {"Predicted", "Linked"}

\* ---------------------------------------------------------------- C29
\* C29: for a ConfigurableTransform with a predictor callable, a successful
\* update() has called data_() on every sub-transform of the pipeline, and none
\* of them is left without parameters.
C29_NoSubTransformUnset ==
    \A c \in Constructed, pred \in Predictions :
        Callable(conf[c].params) =>
            LET r == Configurable_update(conf, objs, pstore, c, pred)
            IN  r.status = "ok" =>
                    \A name \in Names(conf[c]._transforms) :
                        /\ \E k \in 1..Len(r.sets) : r.sets[k][1] = name
                        /\ Variant(r.objs[Sub(c, name)], r.ps) # "Unset"

\* ---------------------------------------------------------------- C30
\* C30: for every domain, fields[i] of a batch of flow fields has the domain of
\* the batch, exp_() leaves the domain of the batch as it was, and exp() of a
\* flow field returns a flow field of the same domain.
C30_DomainPreserved ==
    /\ IsBatch =>
           /\ \A index \in 0..MaxBatch :
                  \A r \in {FlowFields_getitem(flows.src, index)} :
                      r.status = "ok" => r.out._domain = flows.src._domain
           /\ FlowFields_exp_(flows.src)._domain = flows.src._domain
    /\ IsField => FlowField_exp(flows.src).out._domain = flows.src._domain

====
